---- MODULE Spec2Model ----
(***************************************************************************)
(* Name Request state and action engine of namex.                          *)
(*                                                                         *)
(* The model follows api/namex/resources/name_requests/name_request.py:    *)
(* the PUT of NameRequestResource, the PATCH actions of NameRequestFields  *)
(* (CHECKOUT, CHECKIN, EDIT, CANCEL, RESEND, REQUEST_REFUND) and the       *)
(* rollback of NameRequestRollback.  Every handler is one atomic action;   *)
(* the race specification SpecRace splits CHECKOUT at the point where the  *)
(* handler has read the request and has not yet written it.                *)
(*                                                                         *)
(* Further sections follow api/namex/resources/requests.py (Request.patch, *)
(* Request.put and NRNames of the examiners), payment_societies.py         *)
(* (PaymentSocieties.post) and the emailer service: the processor of the   *)
(* payment email, and the worker, scheduler and handler of the scheduled   *)
(* emails.                                                                 *)
(***************************************************************************)
EXTENDS Integers, Sequences, FiniteSets, TLC

\* ------------------------------------------------------------------------
\* Bounds of the model
\* ------------------------------------------------------------------------
MaxTokens == 2
MaxPayments == 2

\* None of Python, for a token or a timestamp (tokens and times are positive)
Null == 0
\* no state: a payload without the key stateCd or state, None in
\* previousStateCd
NoState == "absent"

\* None in consentFlag
NoFlag == "none"

NRIds == {1}
Callers == {"c1", "c2"}
Tokens == 1..MaxTokens

\* ------------------------------------------------------------------------
\* Enumerations
\* ------------------------------------------------------------------------
VALID_STATES ==
    {"DRAFT", "COND_RESERVE", "RESERVED", "PENDING_PAYMENT", "INPROGRESS",
     "HOLD", "APPROVED", "CONDITIONAL", "REJECTED", "CONSUMED", "EXPIRED",
     "CANCELLED", "REFUND_REQUESTED"}

NameRequestPatchActions ==
    {"CHECKOUT", "CHECKIN", "EDIT", "CANCEL", "RESEND", "REQUEST_REFUND"}

NameRequestRollbackActions == {"cancel"}

\* The state sets, update_nr, handle_nr_patch and update_solr live in
\* namex.services.name_request and base_nr_resource; they are modelled from
\* the specification: a request in examination (INPROGRESS) accepts PATCH,
\* which is what lets CHECKIN follow CHECKOUT, and is not request-editable
\* for a CHECKOUT without token.
request_editable_states == {"DRAFT", "RESERVED", "COND_RESERVE", "INPROGRESS"}

contact_editable_states == {"APPROVED", "REJECTED", "CONDITIONAL"}

valid_update_states == {"DRAFT", "COND_RESERVE", "RESERVED", "PENDING_PAYMENT"}

\* payment states that handle_patch_request_refund refunds
valid_states_NoPartial == {"APPROVED", "COMPLETED"}

valid_states == {"APPROVED", "COMPLETED", "PARTIAL"}

solr_entity_types ==
    {"CR", "UL", "BC", "CP", "PA", "XCR", "XUL", "XCP", "CC", "FI"}

service_account_user == "name_request_service_account"

is_request_editable(nr_state) == nr_state \in {"DRAFT", "RESERVED", "COND_RESERVE"}

is_name_request_refundable(nr_state) == nr_state \in {"DRAFT"}

\* ------------------------------------------------------------------------
\* Input domains
\* ------------------------------------------------------------------------
\* stateCd values a PATCH payload carries (or NoState)
PayloadStates == {NoState, "DRAFT", "CANCELLED"}

EntityTypes == {"CR", "SO"}

PaymentActions == {"CREATE", "REAPPLY"}

PaymentStatuses == {"APPROVED", "COMPLETED", "PARTIAL", "CREATED"}

\* what the payment gateway answers to get_payment: amounts in cents
GatewayResponses ==
    { [total |-> 0,    receipts |-> << >>],
      [total |-> 3000, receipts |-> <<3000>>],
      [total |-> 3150, receipts |-> << >>],
      [total |-> 0,    receipts |-> <<150>>] }

PaymentRecords ==
    { p \in [payment_action : PaymentActions, payment_status_code : PaymentStatuses] :
        p.payment_action = "REAPPLY" => p.payment_status_code \in {"COMPLETED", "CREATED"} }

RECURSIVE SeqsUpTo(_, _)
SeqsUpTo(S, n) ==
    IF n = 0 THEN { << >> }
    ELSE LET shorter == SeqsUpTo(S, n - 1)
         IN  shorter \cup { Append(s, x) : s \in { t \in shorter : Len(t) = n - 1 }, x \in S }

VARIABLES
    nrs,        \* the persisted requests: NR id -> row
    payments,   \* the persisted payments of each request
    uuids,      \* number of uuid4 tokens handed out so far
    now,        \* the clock read by datetime.now()
    last,       \* the last handled call: inputs, response, effects in order
    sessions,   \* SpecRace: the CHECKOUT calls in flight, per caller
    expiries,   \* how often Request.patch computed each request's expirationDate
    societies,  \* the persisted payment-society records, in the order of their creation
    inbox,      \* the cloud events published to the emailer (delivered at least once)
    tasks,      \* the Cloud Tasks in flight: the scheduled emails
    ce_cache,   \* the emailer's cache of handled cloud-event ids
    sent        \* the cloud events whose email send_email delivered, in order

\* the state of the emailer
emailer == <<inbox, tasks, ce_cache, sent>>

vars == <<nrs, payments, uuids, now, last, sessions, expiries, societies, inbox, tasks,
          ce_cache, sent>>

\* ------------------------------------------------------------------------
\* Effects of a call on the collaborators, in the order they happen
\* ------------------------------------------------------------------------
Effect(kind, idx, txt) == [kind |-> kind, idx |-> idx, txt |-> txt]

Has(effects, kind) == \E i \in 1..Len(effects) : effects[i].kind = kind

Count(effects, kind) == Cardinality({ i \in 1..Len(effects) : effects[i].kind = kind })

\* '{:.2f}'.format(refund_value), refund_value counted in cents
Format2f(cents) ==
    LET whole == cents \div 100
        frac  == cents % 100
    IN  ToString(whole) \o "." \o
        (IF frac < 10 THEN "0" \o ToString(frac) ELSE ToString(frac))

\* ------------------------------------------------------------------------
\* Rows and payloads
\* ------------------------------------------------------------------------
\* the JSON body of a call: the token the caller presents and a stateCd
Payloads == [checkedOutBy : {Null} \cup Tokens, stateCd : PayloadStates]

\* request_data of the resource after initialize
RequestData(checkedOutBy, checkedOutDt, stateCd) ==
    [checkedOutBy |-> checkedOutBy, checkedOutDt |-> checkedOutDt, stateCd |-> stateCd]

Ok(nr_model, data) == [error |-> "", nr_model |-> nr_model, request_data |-> data]

Raise(error, nr_model) ==
    [error |-> error, nr_model |-> nr_model, request_data |-> RequestData(Null, Null, NoState)]

\* the action token of the route, upper-cased already; an unknown token is
\* dispatched as EDIT
normalize_action(raw) ==
    IF raw \in NameRequestPatchActions THEN raw ELSE "EDIT"

\* the lock check of CHECKOUT
checkout_conflict_NoTokenCompare(nr_model, payload) ==
    nr_model.checkedOutBy = Null /\ ~is_request_editable(nr_model.stateCd)

checkout_conflict(nr_model, payload) ==
    IF nr_model.checkedOutBy = Null
    THEN ~is_request_editable(nr_model.stateCd)
    ELSE nr_model.checkedOutBy # payload.checkedOutBy

\* the refund guard of initialize
refund_refused_Never(nr_action, nr_model) == FALSE

refund_refused(nr_action, nr_model) ==
    nr_action = "REQUEST_REFUND" /\ ~is_name_request_refundable(nr_model.stateCd)

initialize_EditableUnchecked(nr_action, nr_model, payload, uuid, t) ==
    IF nr_action = "CHECKOUT"
    THEN IF nr_model.checkedOutBy # Null /\ nr_model.checkedOutBy # payload.checkedOutBy
         THEN Raise("NameRequestIsInProgressError", nr_model)
         ELSE Ok([nr_model EXCEPT !.userId = service_account_user],
                 RequestData(uuid, t, NoState))
    ELSE IF nr_action = "CHECKIN"
    THEN Ok(nr_model, RequestData(Null, Null, NoState))
    ELSE IF refund_refused(nr_action, nr_model)
    THEN Raise("NameRequestIsInProgressError", nr_model)
    ELSE Ok(nr_model, RequestData(payload.checkedOutBy, Null, payload.stateCd))

\* initialize of NameRequestFields.patch: what it raises, the row as the
\* session holds it afterwards, and the request data the service works on
initialize(nr_action, nr_model, payload, uuid, t) ==
    IF nr_action = "CHECKOUT"
    THEN IF checkout_conflict(nr_model, payload)
         THEN Raise("NameRequestIsInProgressError", nr_model)
         ELSE Ok([nr_model EXCEPT !.userId = service_account_user],
                 RequestData(uuid, t, NoState))
    ELSE IF nr_action = "CHECKIN"
    THEN Ok(nr_model, RequestData(Null, Null, NoState))
    ELSE IF refund_refused(nr_action, nr_model)
    THEN Raise("NameRequestIsInProgressError", nr_model)
    ELSE Ok(nr_model, RequestData(payload.checkedOutBy, Null, payload.stateCd))

validate_patch_request_AnyState(data, nr_model, nr_action) ==
    nr_action \in NameRequestPatchActions

\* validate_patch_request of NameRequestFields.patch; nr_action is the action
\* after the dispatch default
validate_patch_request(data, nr_model, nr_action) ==
    LET request_state == IF data.stateCd = NoState THEN nr_model.stateCd ELSE data.stateCd
        editable == request_state \in request_editable_states
                    \/ request_state \in contact_editable_states
    IN  editable /\ nr_action \in NameRequestPatchActions

validate_put_request(data) == data.stateCd \in valid_update_states

\* handle_nr_patch: only the two lock fields reach the row, and only on
\* CHECKOUT and CHECKIN
handle_nr_patch(nr_model, nr_action, data) ==
    IF nr_action \in {"CHECKOUT", "CHECKIN"}
    THEN [nr_model EXCEPT !.checkedOutBy = data.checkedOutBy,
                          !.checkedOutDt = data.checkedOutDt]
    ELSE nr_model

\* update_nr: apply the state change, run the callback, save the request
update_nr(nr_model, new_state, nr_action, data) ==
    handle_nr_patch([nr_model EXCEPT !.stateCd = new_state], nr_action, data)

\* what goes wrong in the collaborators during one call: the payments whose
\* refund_payment raises, and whether the search index fails its call
NoFaults == [refund |-> {}, solr |-> FALSE]

\* update_solr: the document of a cancelled request leaves the
\* possible.conflicts core, for the entity types the index holds; the call
\* is fire-and-forget, a failure of the index is logged and goes no further
solr_effects(nr_model, fails) ==
    IF nr_model.entity_type_cd \in solr_entity_types
    THEN << Effect("delete_solr_doc", 0, "possible.conflicts") >>
         \o (IF fails.solr THEN << Effect("log_error", 0, "solr") >> ELSE << >>)
    ELSE << >>

Event(label) == Effect("event", 0, label)

Saved(nr_model) == Effect("save_request", 0, nr_model.stateCd)

\* ------------------------------------------------------------------------
\* The PATCH handlers: the new row and the effects after it
\* ------------------------------------------------------------------------
Done(nr_model, pays, effects) ==
    [raised |-> FALSE, nr_model |-> nr_model, payments |-> pays, effects |-> effects]

Failed(nr_model, pays, effects) ==
    [raised |-> TRUE, nr_model |-> nr_model, payments |-> pays, effects |-> effects]

handle_patch_checkout_KeepState(nr_model, pays, data) ==
    LET m == update_nr(nr_model, nr_model.stateCd, "CHECKOUT", data)
    IN  Done(m, pays, << Saved(m), Event("PATCH [checkout]") >>)

handle_patch_checkout(nr_model, pays, data) ==
    LET m == update_nr(nr_model, "INPROGRESS", "CHECKOUT", data)
    IN  Done(m, pays, << Saved(m), Event("PATCH [checkout]") >>)

handle_patch_checkin_KeepState(nr_model, pays, data) ==
    LET m == update_nr(nr_model, nr_model.stateCd, "CHECKIN", data)
    IN  Done(m, pays, << Saved(m), Event("PATCH [checkin]") >>)

handle_patch_checkin(nr_model, pays, data) ==
    LET m == update_nr(nr_model, "DRAFT", "CHECKIN", data)
    IN  Done(m, pays, << Saved(m), Event("PATCH [checkin]") >>)

handle_patch_edit(nr_model, pays, data) ==
    LET m == update_nr(nr_model, nr_model.stateCd, "EDIT", data)
    IN  Done(m, pays, << Saved(m), Effect("commit", 0, ""), Effect("refresh", 0, ""),
                         Event("PATCH [edit]") >>)

handle_patch_resend(nr_model, pays, data) ==
    LET m == update_nr(nr_model, nr_model.stateCd, "RESEND", data)
    IN  Done(m, pays, << Saved(m), Event("PATCH [re-send]") >>)

handle_patch_cancel_EventFirst(nr_model, pays, data, fails) ==
    LET m == update_nr(nr_model, "CANCELLED", "CANCEL", data)
    IN  Done(m, pays, << Saved(m), Event("PATCH [cancel]") >> \o solr_effects(m, fails))

handle_patch_cancel(nr_model, pays, data, fails) ==
    LET m == update_nr(nr_model, "CANCELLED", "CANCEL", data)
    IN  Done(m, pays, << Saved(m) >> \o solr_effects(m, fails)
                      \o << Event("PATCH [cancel]") >>)

\* the renewed-request check of handle_patch_request_refund
has_reapply_Never(pays) == FALSE

has_reapply(pays) ==
    \E i \in 1..Len(pays) : pays[i].payment_action = "REAPPLY"

\* the loop over the payments, from payment i on; acc carries the payments,
\* the effects, refund_value and whether refund_payment raised
RECURSIVE refund_loop(_, _, _, _)
refund_loop_ReceiptOnlyIfCharged(acc, resp, fails, i) ==
    IF i > Len(acc.payments) THEN acc
    ELSE IF acc.payments[i].payment_status_code \notin valid_states
    THEN refund_loop(acc, resp, fails, i + 1)
    ELSE LET payment_response == resp[i]
             got    == Append(acc.effects, Effect("get_payment", i, ""))
             called == IF payment_response.total # 0
                       THEN Append(got, Effect("refund_payment", i, ""))
                       ELSE got
         IN  IF payment_response.total # 0 /\ i \in fails.refund
             THEN [acc EXCEPT !.effects = called, !.raised = TRUE]
             ELSE refund_loop(
                    [acc EXCEPT
                       !.payments[i].payment_status_code = "REFUND_REQUESTED",
                       !.effects = Append(called, Effect("save_payment", i, "REFUND_REQUESTED")),
                       !.refund_value = @ + (IF payment_response.total # 0
                                                /\ Len(payment_response.receipts) > 0
                                             THEN payment_response.receipts[1]
                                             ELSE 0)],
                    resp, fails, i + 1)

refund_loop(acc, resp, fails, i) ==
    IF i > Len(acc.payments) THEN acc
    ELSE IF acc.payments[i].payment_status_code \notin valid_states
    THEN refund_loop(acc, resp, fails, i + 1)
    ELSE LET payment_response == resp[i]
             got    == Append(acc.effects, Effect("get_payment", i, ""))
             called == IF payment_response.total # 0
                       THEN Append(got, Effect("refund_payment", i, ""))
                       ELSE got
         IN  IF payment_response.total # 0 /\ i \in fails.refund
             THEN [acc EXCEPT !.effects = called, !.raised = TRUE]
             ELSE refund_loop(
                    [acc EXCEPT
                       !.payments[i].payment_status_code = "REFUND_REQUESTED",
                       !.effects = Append(called, Effect("save_payment", i, "REFUND_REQUESTED")),
                       !.refund_value = @ + (IF Len(payment_response.receipts) > 0
                                             THEN payment_response.receipts[1]
                                             ELSE 0)],
                    resp, fails, i + 1)

handle_patch_request_refund_EventBeforeIndex(nr_model, pays, data, resp, fails) ==
    LET m    == update_nr(nr_model, "REFUND_REQUESTED", "REQUEST_REFUND", data)
        init == [payments |-> pays, effects |-> << Saved(m) >>, refund_value |-> 0,
                 raised |-> FALSE]
        acc  == IF has_reapply(pays) THEN init ELSE refund_loop(init, resp, fails, 1)
    IN  IF acc.raised
        THEN Failed(m, acc.payments, acc.effects)
        ELSE Done(m, acc.payments,
                  acc.effects
                  \o << Effect("publish_email_notification", 0, Format2f(acc.refund_value)) >>
                  \o << Event("PATCH [request-refund]") >>
                  \o solr_effects(m, fails))

handle_patch_request_refund(nr_model, pays, data, resp, fails) ==
    LET m    == update_nr(nr_model, "REFUND_REQUESTED", "REQUEST_REFUND", data)
        init == [payments |-> pays, effects |-> << Saved(m) >>, refund_value |-> 0,
                 raised |-> FALSE]
        acc  == IF has_reapply(pays) THEN init ELSE refund_loop(init, resp, fails, 1)
    IN  IF acc.raised
        THEN Failed(m, acc.payments, acc.effects)
        ELSE Done(m, acc.payments,
                  acc.effects
                  \o << Effect("publish_email_notification", 0, Format2f(acc.refund_value)) >>
                  \o solr_effects(m, fails)
                  \o << Event("PATCH [request-refund]") >>)

handle_patch_actions(action, nr_model, pays, data, resp, fails) ==
    CASE action = "CHECKOUT"       -> handle_patch_checkout(nr_model, pays, data)
      [] action = "CHECKIN"        -> handle_patch_checkin(nr_model, pays, data)
      [] action = "EDIT"           -> handle_patch_edit(nr_model, pays, data)
      [] action = "CANCEL"         -> handle_patch_cancel(nr_model, pays, data, fails)
      [] action = "RESEND"         -> handle_patch_resend(nr_model, pays, data)
      [] action = "REQUEST_REFUND" -> handle_patch_request_refund(nr_model, pays, data, resp, fails)

\* ------------------------------------------------------------------------
\* NameRequestFields.patch as a whole: the response and what is persisted
\* ------------------------------------------------------------------------
Response(status, error, nr_model, pays, effects) ==
    [status |-> status, error |-> error, nr_model |-> nr_model, payments |-> pays,
     effects |-> effects]

patch_UnwindOnError(raw_action, nr_model, pays, payload, has_access, uuid, t, resp, fails) ==
    LET nr_action == normalize_action(raw_action)
        init      == initialize(nr_action, nr_model, payload, uuid, t)
    IN  IF ~has_access
        THEN Response(403, "", nr_model, pays, << >>)
        ELSE IF init.error # ""
        THEN Response(423, init.error, nr_model, pays, << >>)
        ELSE IF ~validate_patch_request(init.request_data, nr_model, nr_action)
        THEN Response(500, "InvalidInputError", nr_model, pays, << >>)
        ELSE LET out == handle_patch_actions(nr_action, init.nr_model, pays,
                                             init.request_data, resp, fails)
             IN  IF out.raised
                 THEN Response(500, "Exception", nr_model, pays, out.effects)
                 ELSE Response(200, "", out.nr_model, out.payments, out.effects)

patch(raw_action, nr_model, pays, payload, has_access, uuid, t, resp, fails) ==
    LET nr_action == normalize_action(raw_action)
        init      == initialize(nr_action, nr_model, payload, uuid, t)
    IN  IF ~has_access
        THEN Response(403, "", nr_model, pays, << >>)
        ELSE IF init.error # ""
        THEN Response(423, init.error, nr_model, pays, << >>)
        ELSE IF ~validate_patch_request(init.request_data, nr_model, nr_action)
        THEN Response(500, "InvalidInputError", nr_model, pays, << >>)
        ELSE LET out == handle_patch_actions(nr_action, init.nr_model, pays,
                                             init.request_data, resp, fails)
             IN  IF out.raised
                 THEN Response(500, "Exception", out.nr_model, out.payments, out.effects)
                 ELSE Response(200, "", out.nr_model, out.payments, out.effects)

\* ------------------------------------------------------------------------
\* NameRequestResource.put and NameRequestRollback.patch
\* ------------------------------------------------------------------------
\* the update of put runs only for a request in one of valid_update_states;
\* the response is built afterwards either way
put_updates(nr_model) == nr_model.stateCd \in valid_update_states

put(nr_model, pays, payload, has_access) ==
    IF ~has_access
    THEN Response(403, "", nr_model, pays, << >>)
    ELSE IF ~validate_put_request(payload)
    THEN Response(500, "InvalidInputError", nr_model, pays, << >>)
    ELSE IF put_updates(nr_model)
    THEN LET m == update_nr(nr_model, nr_model.stateCd, "PUT", payload)
         IN  Response(200, "", m, pays, << Saved(m), Event("PUT") >>)
    ELSE Response(200, "", nr_model, pays, << >>)

rollback_solr_effects_Always(nr_model) ==
    << Effect("delete_solr_doc", 0, "possible.conflicts") >>

\* the rollback deletes the document itself, for the entity types it lists
rollback_solr_effects(nr_model) ==
    IF nr_model.entity_type_cd \in solr_entity_types
    THEN << Effect("delete_solr_doc", 0, "possible.conflicts") >>
    ELSE << >>

handle_patch_rollback(nr_model, pays, data) ==
    LET m == update_nr(nr_model, "CANCELLED", "ROLLBACK", data)
    IN  Done(m, pays, << Saved(m) >> \o rollback_solr_effects(m)
                      \o << Event("PATCH [rollback]") >>)

rollback(action, nr_model, pays, payload, has_access) ==
    IF ~has_access
    THEN Response(403, "", nr_model, pays, << >>)
    ELSE IF action \notin NameRequestRollbackActions
    THEN Response(500, "InvalidInputError", nr_model, pays, << >>)
    ELSE LET out == handle_patch_rollback(nr_model, pays, payload)
         IN  Response(200, "", out.nr_model, out.payments, out.effects)

\* ------------------------------------------------------------------------
\* requests.py: Request.patch and Request.put, the calls of the examiners
\* ------------------------------------------------------------------------
\* a key the payload does not have
Missing == "missing"

\* the examiners who call
Users == {"u1", "u2"}

\* State.COMPLETED_STATE
COMPLETED_STATE == {"APPROVED", "REJECTED", "CONDITIONAL", "CONSUMED", "EXPIRED"}

\* NameRequestService.get_expiry_days and create_expiry_date: the day the
\* request expires, counted from the day of the decision
ExpiryDays == 56

create_expiry_date(t, expiry_days) == t + expiry_days

\* the names locals() holds where Request.patch tests 'start_state in locals()'
patch_locals ==
    {"nr", "args", "kwargs", "json_input", "user", "nrd", "start_state", "state",
     "existing_nr"}

\* RequestDAO.get_inprogress(user): the requests the user has in INPROGRESS
get_inprogress(user, rows) ==
    { n \in DOMAIN rows : rows[n].userId = user /\ rows[n].stateCd = "INPROGRESS" }

\* a name choice of a request: Name.state is NE until the choice is examined
NameRow(choice, name, state, consumptionDate, corpNum) ==
    [choice |-> choice, name |-> name, state |-> state,
     consumptionDate |-> consumptionDate, corpNum |-> corpNum]

\* a name of the payload of PUT; valid: names_schema.validate finds no error
InName(choice, name, state, consumptionDate, corpNum, valid) ==
    [choice |-> choice, name |-> name, state |-> state,
     consumptionDate |-> consumptionDate, corpNum |-> corpNum, valid |-> valid]

\* the applicant of a request and the applicants object of the payload;
\* valid: applicant_schema.validate finds no error
ApplicantRow(lastName) == [lastName |-> lastName]

InApplicant(lastName, valid) == [lastName |-> lastName, valid |-> valid]

\* str.upper on the names the payloads carry
upper(s) == IF s = "acme" THEN "ACME" ELSE s

\* the payload that sends a name or an applicant back as it is stored
AsInNames(names) ==
    [i \in 1..Len(names) |->
        InName(names[i].choice, names[i].name, names[i].state,
               names[i].consumptionDate, names[i].corpNum, TRUE)]

AsInApplicants(applicants) ==
    [i \in 1..Len(applicants) |-> InApplicant(applicants[i].lastName, TRUE)]

\* what the examiners send; PATCH reads state, previousStateCd and corpNum,
\* PUT replaces the header with the other keys and reads names and
\* applicants (an empty sequence: no applicants object)
StaffPayload(state, previousStateCd, consentFlag, consent_dt, expirationDate, furnished) ==
    [state |-> state, previousStateCd |-> previousStateCd, consentFlag |-> consentFlag,
     consent_dt |-> consent_dt, expirationDate |-> expirationDate,
     furnished |-> furnished, checkedOutBy |-> Null, stateCd |-> NoState,
     corpNum |-> "", hasBeenReset |-> Missing, names |-> << >>, applicants |-> << >>]

\* the payload of a PUT that carries the names and the applicant of the
\* request as they are stored
Replacing(json_input, nrd) ==
    [json_input EXCEPT !.names = AsInNames(nrd.names),
                       !.applicants = AsInApplicants(nrd.applicants)]

StaffResponse(status, rows, effects, computed) ==
    [status |-> status, error |-> "", rows |-> rows, effects |-> effects,
     computed |-> computed, changed |-> FALSE]

\* a response with its message
Rejected(status, message, rows, effects) ==
    [StaffResponse(status, rows, effects, FALSE) EXCEPT !.error = message]

\* Request.patch: the other INPROGRESS request of the user goes back to its
\* previous state, or to HOLD
patch_demote(existing_nr) ==
    IF existing_nr.previousStateCd \notin {NoState, ""}
    THEN [existing_nr EXCEPT !.stateCd = existing_nr.previousStateCd,
                             !.previousStateCd = NoState]
    ELSE [existing_nr EXCEPT !.stateCd = "HOLD"]

\* the expiry block of Request.patch
patch_computes_expiry_Always(nrd) ==
    nrd.stateCd \in {"APPROVED", "REJECTED", "CONDITIONAL"}

patch_computes_expiry(nrd) ==
    /\ nrd.stateCd \in {"APPROVED", "REJECTED", "CONDITIONAL"}
    /\ nrd.furnished = "N"
    /\ nrd.expirationDate = Null

\* the reset flag is cleared by a change to a completed or cancelled state
patch_clears_reset_flag_Never(stated, state) == FALSE

patch_clears_reset_flag(stated, state) ==
    stated /\ state \in COMPLETED_STATE \cup {"CANCELLED"}

\* Name.APPROVED and Name.CONDITION
ConsumableNameStates == {"APPROVED", "CONDITION"}

\* consumeName of Request.patch: every approved or conditionally approved
\* name gets the consumption date and the corp number of the payload
consumeName(nrd, json_input, t) ==
    LET hit == { i \in 1..Len(nrd.names) : nrd.names[i].state \in ConsumableNameStates }
    IN  IF json_input.corpNum \in {"", Missing}
        THEN [success |-> FALSE, error_message |-> "corpNum is required",
              names |-> nrd.names]
        ELSE IF hit = {}
        THEN [success |-> FALSE, error_message |-> "no name to be consumed",
              names |-> nrd.names]
        ELSE [success |-> TRUE, error_message |-> "",
              names |-> [i \in 1..Len(nrd.names) |->
                            IF i \in hit
                            THEN [nrd.names[i] EXCEPT !.consumptionDate = t,
                                                      !.corpNum = json_input.corpNum]
                            ELSE nrd.names[i]]]

\* the decision notification of Request.patch
patch_notifies_AnyState(state) == state \notin {NoState, ""}

patch_notifies(state) == state \in {"APPROVED", "CONDITIONAL", "REJECTED"}

\* existing is what get_inprogress returned (0: None), allowed what
\* valid_state_transition answered, t the clock; raises: nrd.save_to_db
\* raises, which the handler answers with 500
Request_patch_saving(user, nr, rows, json_input, allowed, existing, t, raises) ==
    LET start_state == rows[nr].stateCd
        state   == json_input.state
        stated  == state \notin {NoState, ""}
    IN  IF stated /\ state \notin VALID_STATES
        THEN StaffResponse(406, rows, << >>, FALSE)
        ELSE IF stated /\ ~allowed
        THEN StaffResponse(401, rows, << >>, FALSE)
        ELSE
        LET demotes == stated /\ existing # 0
            held == IF demotes THEN [rows EXCEPT ![existing] = patch_demote(@)] ELSE rows
            demotion == IF demotes
                        THEN << Effect("save_request", existing, held[existing].stateCd) >>
                        ELSE << >>
            n1 == IF stated
                  THEN [held[nr] EXCEPT !.stateCd = state, !.userId = user]
                  ELSE held[nr]
            n2 == IF stated /\ start_state \in patch_locals
                     /\ start_state # "INPROGRESS" /\ n1.stateCd = "INPROGRESS"
                  THEN [n1 EXCEPT !.furnished = "N"]
                  ELSE n1
            n2r == IF patch_clears_reset_flag(stated, state)
                   THEN [n2 EXCEPT !.hasBeenReset = "false"]
                   ELSE n2
            n3 == IF stated /\ state \in COMPLETED_STATE \cup {"CANCELLED"}
                     /\ n2r.stateCd = "CONDITIONAL" /\ n2r.consentFlag = NoFlag
                  THEN [n2r EXCEPT !.consentFlag = "Y"]
                  ELSE n2r
            n4 == IF json_input.previousStateCd # Missing
                  THEN [n3 EXCEPT !.previousStateCd = json_input.previousStateCd]
                  ELSE n3
            computes == patch_computes_expiry(n4)
            n5 == IF computes
                  THEN [n4 EXCEPT !.expirationDate = create_expiry_date(t, ExpiryDays),
                                  !.furnished = "Y"]
                  ELSE n4
            consumed == IF state = "CONSUMED" THEN consumeName(n5, json_input, t)
                        ELSE [success |-> TRUE, error_message |-> "", names |-> n5.names]
            n6 == [n5 EXCEPT !.names = consumed.names]
        IN  IF ~consumed.success
            \* nothing of nrd is saved; the demotion was saved before
            THEN Rejected(406, consumed.error_message, held, demotion)
            ELSE IF raises
            THEN Rejected(500, "Internal server error", held, demotion)
            ELSE StaffResponse(200, [held EXCEPT ![nr] = n6],
                     demotion
                     \o << Effect("save_request", nr, n6.stateCd), Effect("event", nr, "PATCH") >>
                     \o (IF patch_notifies(state)
                         THEN << Effect("publish_email_notification", nr, state) >>
                         ELSE << >>),
                     computes)

\* the call in which the save goes through
Request_patch(user, nr, rows, json_input, allowed, existing, t) ==
    Request_patch_saving(user, nr, rows, json_input, allowed, existing, t, FALSE)

\* Request.put: consent is dropped when the request leaves CONDITIONAL
put_clears_consent(nrd, is_changed__request_state) ==
    nrd.stateCd # "CONDITIONAL" /\ is_changed__request_state

name_choice_exists_AnyText(in_names, choice) ==
    \E j \in 1..Len(in_names) : in_names[j].choice = choice

\* name_choice_exists of Request.put: the payload has this choice with a
\* name that is not empty
name_choice_exists(in_names, choice) ==
    \E j \in 1..Len(in_names) : in_names[j].choice = choice /\ in_names[j].name # ""

\* the reset flag is cleared by a PUT to a completed or cancelled state
put_clears_reset_flag_Never(state) == FALSE

put_clears_reset_flag(state) == state \in COMPLETED_STATE \cup {"CANCELLED"}

\* the names block of Request.put: for every name of the request, in the
\* order of the list and the names appended on the way included, every name
\* of the payload is looked at.  acc holds the list, the name as it was when
\* its turn came (orig), whether names_schema found an error, the choices
\* whose name changed and the choices 2 and 3 that were blanked
RECURSIVE put_names(_, _, _, _)
put_names(acc, in_names, i, j) ==
    IF i > Len(acc.names)
    THEN acc
    ELSE IF j > Len(in_names)
    THEN put_names([acc EXCEPT !.orig = IF i + 1 <= Len(acc.names)
                                        THEN acc.names[i + 1] ELSE @],
                   in_names, i + 1, 1)
    ELSE
    LET in_name  == in_names[j]
        nrd_name == acc.names[i]
        new_name == NameRow(in_name.choice, upper(in_name.name), in_name.state,
                            in_name.consumptionDate, in_name.corpNum)
    IN  IF Len(acc.names) < in_name.choice
        THEN IF in_name.name # ""
             THEN put_names([acc EXCEPT !.errors = @ \/ ~in_name.valid,
                                        !.names = Append(@, new_name),
                                        !.changed = @ \cup ({in_name.choice} \cap {2, 3})],
                            in_names, i, j + 1)
             ELSE put_names([acc EXCEPT !.errors = @ \/ ~in_name.valid],
                            in_names, i, j + 1)
        ELSE IF nrd_name.choice = in_name.choice
        THEN LET differs == new_name.name # acc.orig.name
             IN  put_names([acc EXCEPT !.errors = @ \/ ~in_name.valid,
                                       !.names[i] = new_name,
                                       !.changed = IF differs THEN @ \cup {new_name.choice}
                                                   ELSE @,
                                       !.deleted = IF differs /\ new_name.choice \in {2, 3}
                                                      /\ new_name.name = ""
                                                   THEN @ \cup {new_name.choice} ELSE @],
                           in_names, i, j + 1)
        ELSE put_names(acc, in_names, i, j + 1)

\* the names that stay when the blanked ones are deleted
RECURSIVE without_deleted(_, _)
without_deleted(names, deleted) ==
    IF names = << >> THEN << >>
    ELSE IF Head(names).choice \in deleted
    THEN without_deleted(Tail(names), deleted)
    ELSE << Head(names) >> \o without_deleted(Tail(names), deleted)

\* Request.put, for a request that has names and no partner records and a
\* payload with a names list and a comments list; dates are compared by
\* their day
Request_put(user, nr, rows, json_input, allowed, existing) ==
    LET state    == json_input.state
        orig_nrd == rows[nr]
    IN  IF state \in {NoState, ""} \/ state \notin VALID_STATES
        THEN StaffResponse(406, rows, << >>, FALSE)
        ELSE IF ~allowed
        THEN StaffResponse(401, rows, << >>, FALSE)
        ELSE IF ~name_choice_exists(json_input.names, 1)
        THEN Rejected(400, "Data does not include a name choice 1", rows, << >>)
        ELSE IF ~name_choice_exists(json_input.names, 2)
                /\ name_choice_exists(json_input.names, 3)
        THEN Rejected(400, "Data contains a name choice 3 without a name choice 2",
                      rows, << >>)
        ELSE
        LET held == IF existing # 0 THEN [rows EXCEPT ![existing].stateCd = "HOLD"] ELSE rows
            demotion == IF existing # 0
                        THEN << Effect("save_request", existing, "HOLD") >>
                        ELSE << >>
            nrd   == held[nr]
            reset == nrd.furnished = "Y" /\ json_input.furnished = "N"
            n1 == [nrd EXCEPT !.consentFlag = json_input.consentFlag,
                              !.consent_dt = json_input.consent_dt,
                              !.checkedOutBy = json_input.checkedOutBy,
                              !.checkedOutDt = Null,
                              !.expirationDate = json_input.expirationDate,
                              !.furnished = IF json_input.furnished = Missing THEN "N"
                                            ELSE json_input.furnished,
                              !.hasBeenReset =
                                  IF put_clears_reset_flag(state) THEN "false"
                                  ELSE IF reset THEN "true"
                                  ELSE IF json_input.hasBeenReset = Missing THEN NoFlag
                                  ELSE json_input.hasBeenReset,
                              !.stateCd = state,
                              !.userId = user]
            is_changed__request == n1.expirationDate # orig_nrd.expirationDate
            is_changed__request_state == n1.stateCd # orig_nrd.stateCd
            is_changed_consent == n1.consentFlag # orig_nrd.consentFlag
            n2 == IF put_clears_consent(n1, is_changed__request_state)
                  THEN [n1 EXCEPT !.consentFlag = NoFlag, !.consent_dt = Null]
                  ELSE n1
            \* applicants
            has_applicant == n2.applicants # << >>
            appl          == json_input.applicants
            drops_applicant == has_applicant /\ appl = << >>
            applicant_errors == has_applicant /\ appl # << >> /\ ~appl[1].valid
            is_changed__applicant ==
                has_applicant /\ (appl = << >> \/ appl[1].lastName # n2.applicants[1].lastName)
            n3 == IF has_applicant /\ appl # << >>
                  THEN [n2 EXCEPT !.applicants = << ApplicantRow(appl[1].lastName) >>]
                  ELSE IF drops_applicant
                  THEN [n2 EXCEPT !.applicants = << >>]
                  ELSE n2
            \* names
            named == put_names([names |-> n3.names, orig |-> n3.names[1], errors |-> FALSE,
                                changed |-> {}, deleted |-> {}],
                               json_input.names, 1, 1)
            n4 == [n3 EXCEPT !.names = named.names]
            before == demotion
                \o (IF reset THEN << Effect("publish_email_notification", nr, "RESET") >>
                    ELSE << >>)
                \o (IF is_changed_consent /\ n1.consentFlag = "R"
                    THEN << Effect("publish_email_notification", nr, "CONSENT_RECEIVED") >>
                    ELSE << >>)
                \o (IF drops_applicant THEN << Effect("delete_applicant", nr, "") >>
                    ELSE << >>)
            any_flag == \/ is_changed__request \/ is_changed__request_state
                        \/ is_changed_consent \/ is_changed__applicant
                        \/ named.changed # {}
            n5 == IF reset
                  THEN [n4 EXCEPT !.expirationDate = Null, !.consentFlag = NoFlag,
                                  !.consent_dt = Null]
                  ELSE IF any_flag
                  THEN [n4 EXCEPT !.names = without_deleted(@, named.deleted)]
                  ELSE n4
        IN  IF applicant_errors \/ named.errors
            \* the changes are abandoned; the demotion and the deletion of the
            \* applicant were saved on the way
            THEN Rejected(400, "errors",
                          IF drops_applicant THEN [held EXCEPT ![nr].applicants = << >>]
                          ELSE held,
                          before)
            ELSE [StaffResponse(200, [held EXCEPT ![nr] = n5],
                      before
                      \o (IF ~reset /\ any_flag
                          THEN << Effect("save_request", nr, n4.stateCd) >>
                               \o (IF named.deleted # {}
                                   THEN << Effect("delete_names", nr, "") >> ELSE << >>)
                          ELSE << >>)
                      \o << Effect("save_request", nr, n5.stateCd), Effect("event", nr, "PUT") >>,
                      FALSE)
                  EXCEPT !.changed = reset \/ any_flag]

\* ------------------------------------------------------------------------
\* State
\* ------------------------------------------------------------------------
Rows ==
    [stateCd : VALID_STATES, checkedOutBy : {Null}, checkedOutDt : {Null},
     userId : {"client"}, entity_type_cd : EntityTypes,
     previousStateCd : {NoState}, furnished : {"N"}, expirationDate : {Null},
     consentFlag : {NoFlag}, consent_dt : {Null}, hasBeenReset : {NoFlag},
     names : {<< NameRow(1, "ACME", "NE", Null, "") >>},
     applicants : {<< ApplicantRow("SMITH") >>}]

NoPayload == [checkedOutBy |-> Null, stateCd |-> NoState]

\* the payloads of the calls that carry no token
StatePayloads == { p \in Payloads : p.checkedOutBy = Null }

\* the payloads of CHECKOUT and CHECKIN: a token or nothing
TokenPayloads == { p \in Payloads : p.stateCd = NoState }

\* the record of a handled call; token is the action token of the route as
\* the caller sent it
Call(op, nr_action, nr_id, payload, pre, prePayments, r) ==
    [op |-> op, nr_action |-> nr_action, nr |-> nr_id, payload |-> payload,
     pre |-> pre, prePayments |-> prePayments,
     status |-> r.status, error |-> r.error, effects |-> r.effects,
     gateway |-> << >>, faults |-> NoFaults, token |-> nr_action]

NoCall ==
    [op |-> "none", nr_action |-> "", nr |-> 0, payload |-> NoPayload,
     pre |-> [stateCd |-> "", checkedOutBy |-> Null, checkedOutDt |-> Null,
              userId |-> "", entity_type_cd |-> "", previousStateCd |-> NoState,
              furnished |-> "", expirationDate |-> Null, consentFlag |-> NoFlag,
              consent_dt |-> Null, hasBeenReset |-> NoFlag, names |-> << >>,
              applicants |-> << >>],
     prePayments |-> << >>, status |-> 0, error |-> "", effects |-> << >>,
     gateway |-> << >>, faults |-> NoFaults, token |-> ""]

Idle ==
    [pc |-> "idle", nr |-> 0, payload |-> NoPayload,
     nr_model |-> NoCall.pre, status |-> 0, checkedOutBy |-> Null, overwrote |-> Null]

InitCommon ==
    /\ uuids = 0
    /\ now = 1
    /\ last = NoCall
    /\ sessions = [c \in Callers |-> Idle]
    /\ expiries = [n \in DOMAIN nrs |-> 0]
    /\ societies = << >>
    /\ inbox = {}
    /\ tasks = {}
    /\ ce_cache = {}
    /\ sent = << >>

\* requests in any state, not checked out, without payments
Init ==
    /\ nrs \in [NRIds -> Rows]
    /\ payments = [n \in NRIds |-> << >>]
    /\ InitCommon

\* requests in any state with up to MaxPayments payments
InitRefund ==
    /\ nrs \in [NRIds -> Rows]
    /\ payments \in [NRIds -> SeqsUpTo(PaymentRecords, MaxPayments)]
    /\ InitCommon

Persist(n, r) ==
    /\ nrs' = [nrs EXCEPT ![n] = r.nr_model]
    /\ payments' = [payments EXCEPT ![n] = r.payments]

\* what the call got from the gateway: the answers to the get_payment calls
\* it made
NoAnswer == [total |-> 0, receipts |-> << >>]

Asked(resp, effects) ==
    [i \in DOMAIN resp |->
        IF \E k \in 1..Len(effects) :
               effects[k].kind = "get_payment" /\ effects[k].idx = i
        THEN resp[i] ELSE NoAnswer]

\* the faults the call ran into
Occurred(fails, effects) ==
    [refund |-> { j \in fails.refund :
                    \E k \in 1..Len(effects) :
                        effects[k].kind = "refund_payment" /\ effects[k].idx = j },
     solr   |-> fails.solr /\ Has(effects, "delete_solr_doc")]

\* one PATCH call with the given action token, handled from start to end
PatchCall(raw_action, n, payload, has_access, resp, fails) ==
    \E r \in { patch(raw_action, nrs[n], payments[n], payload, has_access,
                      uuids + 1, now, resp, fails) } :
    LET fresh == normalize_action(raw_action) = "CHECKOUT" /\ r.status = 200
    IN  /\ Persist(n, r)
        /\ uuids' = IF fresh THEN uuids + 1 ELSE uuids
        /\ now' = IF fresh THEN now + 1 ELSE now
        /\ last' = [Call("PATCH", normalize_action(raw_action), n, payload,
                         nrs[n], payments[n], r)
                    EXCEPT !.gateway = Asked(resp, r.effects),
                           !.faults = Occurred(fails, r.effects),
                           !.token = raw_action]
        /\ UNCHANGED <<sessions, expiries, societies, emailer>>

NoResp == [i \in {} |-> 0]

PatchCheckout ==
    \E n \in DOMAIN nrs, payload \in TokenPayloads :
        /\ uuids < MaxTokens
        /\ PatchCall("CHECKOUT", n, payload, TRUE, NoResp, NoFaults)

PatchCheckin ==
    \E n \in DOMAIN nrs, payload \in TokenPayloads :
        PatchCall("CHECKIN", n, payload, TRUE, NoResp, NoFaults)

PatchEdit ==
    \E n \in DOMAIN nrs, payload \in Payloads, raw \in {"EDIT", "UNKNOWN"} :
        PatchCall(raw, n, payload, TRUE, NoResp, NoFaults)

\* the search index may fail the call that deletes the document
PatchCancel ==
    \E n \in DOMAIN nrs, payload \in Payloads, solr \in BOOLEAN :
        PatchCall("CANCEL", n, payload, TRUE, NoResp, [NoFaults EXCEPT !.solr = solr])

PatchResend ==
    \E n \in DOMAIN nrs, payload \in Payloads :
        PatchCall("RESEND", n, payload, TRUE, NoResp, NoFaults)

\* the gateway answers each get_payment; refund_payment raises for the
\* payment failAt (0: for none); the search index may fail its call.  The
\* answers are drawn for the calls that are made: quiet is the call with no
\* fault, which asks the collaborators everything the call can ask them.
PatchRequestRefund ==
    \E n \in DOMAIN nrs, payload \in StatePayloads :
        \E quiet \in { patch("REQUEST_REFUND", nrs[n], payments[n], payload, TRUE,
                             uuids + 1, now,
                             [i \in 1..Len(payments[n]) |-> NoAnswer], NoFaults) } :
            \E asked \in { { i \in 1..Len(payments[n]) :
                                \E k \in 1..Len(quiet.effects) :
                                    quiet.effects[k] = Effect("get_payment", i, "") } },
               index \in { IF Has(quiet.effects, "delete_solr_doc")
                           THEN BOOLEAN ELSE {FALSE} } :
                \E answers \in [asked -> GatewayResponses],
                   failAt \in asked \cup {0}, solr \in index :
                    PatchCall("REQUEST_REFUND", n, payload, TRUE,
                              [i \in 1..Len(payments[n]) |->
                                  IF i \in asked THEN answers[i] ELSE NoAnswer],
                              [refund |-> {failAt} \ {0}, solr |-> solr])

\* a caller without full access to the name request: PATCH, PUT and rollback
\* answer 403 before they read anything
Forbidden ==
    \E n \in DOMAIN nrs, op \in {"PATCH", "PUT", "ROLLBACK"} :
        LET r == IF op = "PATCH"
                 THEN patch("EDIT", nrs[n], payments[n], NoPayload, FALSE, uuids + 1, now,
                            NoResp, NoFaults)
                 ELSE IF op = "PUT"
                 THEN put(nrs[n], payments[n], NoPayload, FALSE)
                 ELSE rollback("cancel", nrs[n], payments[n], NoPayload, FALSE)
        IN  /\ Persist(n, r)
            /\ last' = Call(op, "", n, NoPayload, nrs[n], payments[n], r)
            /\ UNCHANGED <<uuids, now, sessions, expiries, societies, emailer>>

Put ==
    \E n \in DOMAIN nrs, payload \in Payloads :
        LET r == put(nrs[n], payments[n], payload, TRUE)
        IN  /\ Persist(n, r)
            /\ last' = Call("PUT", "", n, payload, nrs[n], payments[n], r)
            /\ UNCHANGED <<uuids, now, sessions, expiries, societies, emailer>>

Rollback ==
    \E n \in DOMAIN nrs, payload \in StatePayloads,
       action \in NameRequestRollbackActions \cup {"undo"} :
        LET r == rollback(action, nrs[n], payments[n], payload, TRUE)
        IN  /\ Persist(n, r)
            /\ last' = Call("ROLLBACK", action, n, payload, nrs[n], payments[n], r)
            /\ UNCHANGED <<uuids, now, sessions, expiries, societies, emailer>>

Next ==
    \/ PatchCheckout
    \/ PatchCheckin
    \/ PatchEdit
    \/ PatchCancel
    \/ PatchResend
    \/ PatchRequestRefund
    \/ Put
    \/ Rollback
    \/ Forbidden

Spec == Init /\ [][Next]_vars

NextRefund ==
    \/ PatchRequestRefund
    \/ Forbidden

SpecRefund == InitRefund /\ [][NextRefund]_vars

\* draft requests with payments, cancelled or refunded while the
\* collaborators may fail
InitSync ==
    /\ nrs \in [NRIds -> { r \in Rows : r.stateCd = "DRAFT" }]
    /\ payments \in [NRIds -> SeqsUpTo(PaymentRecords, MaxPayments)]
    /\ InitCommon

NextSync ==
    \/ PatchCancel
    \/ PatchRequestRefund

SpecSync == InitSync /\ [][NextSync]_vars

\* ------------------------------------------------------------------------
\* CHECKOUT calls of several callers, interleaved.  A call reads the row
\* (Request.query.get) and later writes it (the save of update_nr); calls of
\* other workers run in between.
\* ------------------------------------------------------------------------
\* the UPDATE of the save carries the columns the call changed on its copy
Flush(loaded, changed, current) ==
    [f \in DOMAIN current |-> IF changed[f] # loaded[f] THEN changed[f] ELSE current[f]]

CheckoutBegin(c) ==
    \E n \in DOMAIN nrs, payload \in TokenPayloads :
        /\ sessions[c].pc = "idle"
        /\ sessions' = [sessions EXCEPT ![c] =
                          [Idle EXCEPT !.pc = "loaded", !.nr = n, !.payload = payload,
                                       !.nr_model = nrs[n]]]
        /\ UNCHANGED <<nrs, payments, uuids, now, last, expiries, societies, emailer>>

CheckoutFinish(c) ==
    LET s == sessions[c]
        n == s.nr
        r == patch("CHECKOUT", s.nr_model, payments[n], s.payload, TRUE, uuids + 1, now,
                   NoResp, NoFaults)
    IN  /\ s.pc = "loaded"
        /\ uuids < MaxTokens
        /\ IF r.status = 200
           THEN /\ nrs' = [nrs EXCEPT ![n] = Flush(s.nr_model, r.nr_model, nrs[n])]
                /\ uuids' = uuids + 1
                /\ now' = now + 1
                /\ sessions' = [sessions EXCEPT ![c] =
                                  [s EXCEPT !.pc = "done", !.status = 200,
                                            !.checkedOutBy = r.nr_model.checkedOutBy,
                                            !.overwrote = nrs[n].checkedOutBy]]
           ELSE /\ sessions' = [sessions EXCEPT ![c] =
                                  [s EXCEPT !.pc = "done", !.status = r.status]]
                /\ UNCHANGED <<nrs, uuids, now>>
        /\ UNCHANGED <<payments, last, expiries, societies, emailer>>

NextRace ==
    \/ \E c \in Callers : CheckoutBegin(c)
    \/ \E c \in Callers : CheckoutFinish(c)

SpecRace == Init /\ [][NextRace]_vars

\* ------------------------------------------------------------------------
\* The examiners' calls on several requests: Request.patch and Request.put
\* ------------------------------------------------------------------------
MaxExpiries == 2

StaffNRIds == {1, 2}

\* the payloads of the calls on several requests carry a state and a
\* previous state: none, states of the enumeration, and a name that is no
\* state
StaffStates == {NoState, "INPROGRESS", "HOLD", "NOT_A_STATE"}

StatePatches(nrd) ==
    { StaffPayload(state, previousStateCd, NoFlag, Null, Null, Missing) :
        state \in StaffStates,
        previousStateCd \in {Missing, "INPROGRESS", "NOT_A_STATE"} }

StatePuts(nrd) ==
    { Replacing(StaffPayload(state, Missing, NoFlag, Null, nrd.expirationDate,
                             nrd.furnished), nrd) :
        state \in StaffStates }

\* the record of a handled call of an examiner
StaffCall(op, user, nr_id, payload, pre, existing, r) ==
    [op |-> op, nr_action |-> "", nr |-> nr_id, payload |-> payload,
     pre |-> pre, prePayments |-> << >>,
     status |-> r.status, error |-> r.error, effects |-> r.effects,
     gateway |-> << >>, faults |-> NoFaults, token |-> "",
     user |-> user, existing |-> existing, computed |-> r.computed,
     changed |-> r.changed]

\* what get_inprogress hands to the call: one of the user's INPROGRESS
\* requests, None (0) when there is none
Existing(user) ==
    IF get_inprogress(user, nrs) = {} THEN {0} ELSE get_inprogress(user, nrs)

\* valid_state_transition is asked when the payload names a state of the
\* enumeration; the policy is not part of these resources, its answer is an
\* input of the call
Answers(json_input) ==
    IF json_input.state \in VALID_STATES THEN BOOLEAN ELSE {TRUE}

\* one call of Request.patch
RequestPatch(n, user, json_input) ==
    \E allowed \in Answers(json_input), existing \in Existing(user) :
        \E r \in { Request_patch(user, n, nrs, json_input, allowed, existing, now) } :
            /\ r.computed => expiries[n] < MaxExpiries
            /\ nrs' = r.rows
            /\ expiries' = IF r.computed THEN [expiries EXCEPT ![n] = @ + 1]
                           ELSE expiries
            /\ now' = IF r.computed THEN now + 1 ELSE now
            /\ last' = StaffCall("Request.patch", user, n, json_input, nrs[n],
                                 existing, r)
            /\ UNCHANGED <<payments, uuids, sessions, societies, emailer>>

\* one call of Request.put
RequestPut(n, user, json_input) ==
    \E allowed \in Answers(json_input), existing \in Existing(user) :
        \E r \in { Request_put(user, n, nrs, json_input, allowed, existing) } :
            /\ nrs' = r.rows
            /\ last' = StaffCall("Request.put", user, n, json_input, nrs[n],
                                 existing, r)
            /\ UNCHANGED <<payments, uuids, now, sessions, expiries, societies, emailer>>

PatchState ==
    \E n \in DOMAIN nrs, user \in Users :
        \E json_input \in StatePatches(nrs[n]) : RequestPatch(n, user, json_input)

PutState ==
    \E n \in DOMAIN nrs, user \in Users :
        \E json_input \in StatePuts(nrs[n]) : RequestPut(n, user, json_input)

\* new requests: drafts nobody has examined
InitStaff ==
    /\ nrs \in [StaffNRIds -> { r \in Rows : r.stateCd = "DRAFT" /\ r.entity_type_cd = "CR" }]
    /\ payments = [n \in StaffNRIds |-> << >>]
    /\ InitCommon

NextStaff ==
    \/ PatchState
    \/ PutState

SpecStaff == InitStaff /\ [][NextStaff]_vars

\* ------------------------------------------------------------------------
\* The examination of one request: decisions, consent, expiry and reset
\* ------------------------------------------------------------------------
ExamStates == {NoState, "INPROGRESS", "APPROVED", "CONDITIONAL"}

ExamPatches(nrd) ==
    { StaffPayload(state, Missing, NoFlag, Null, Null, Missing) : state \in ExamStates }

\* a PUT sends the whole header: the expirationDate is the stored one or
\* none, furnished is the stored flag, 'N' or absent, the consent date comes
\* with the consent flag
ExamPuts(nrd) ==
    { Replacing(StaffPayload(state, Missing, consentFlag,
                             IF consentFlag = NoFlag THEN Null ELSE 1, expirationDate,
                             furnished), nrd) :
        state \in ExamStates \ {NoState}, consentFlag \in {NoFlag, "Y"},
        expirationDate \in {Null, nrd.expirationDate}, furnished \in {Missing, nrd.furnished, "N"} }

InitExam ==
    /\ nrs \in [NRIds -> { r \in Rows : r.stateCd = "DRAFT" /\ r.entity_type_cd = "CR" }]
    /\ payments = [n \in NRIds |-> << >>]
    /\ InitCommon

PatchDecision ==
    \E n \in DOMAIN nrs, user \in Users :
        \E json_input \in ExamPatches(nrs[n]) : RequestPatch(n, user, json_input)

PutHeader ==
    \E n \in DOMAIN nrs, user \in Users :
        \E json_input \in ExamPuts(nrs[n]) : RequestPut(n, user, json_input)

NextExam ==
    \/ PatchDecision
    \/ PutHeader

SpecExam == InitExam /\ [][NextExam]_vars

\* ------------------------------------------------------------------------
\* The life of one request under examination: every state a PATCH or a PUT
\* can name, the reset, and the consumption of its names
\* ------------------------------------------------------------------------
LifeStates == {NoState, "INPROGRESS", "CANCELLED"} \cup COMPLETED_STATE

CorpNums == {"", "BC1234567"}

\* the names of the request when the examiner takes it: not examined;
\* approved; the first rejected and the second approved with conditions
LifeNames ==
    { << NameRow(1, "ACME", "NE", Null, "") >>,
      << NameRow(1, "ACME", "APPROVED", Null, "") >>,
      << NameRow(1, "ACME", "REJECTED", Null, ""),
         NameRow(2, "BETA", "CONDITION", Null, "") >> }

\* the corp number is read for CONSUMED only
LifePatches(nrd) ==
    { [StaffPayload(state, Missing, NoFlag, Null, Null, Missing) EXCEPT !.corpNum = corpNum] :
        state \in LifeStates,
        corpNum \in CorpNums }

\* a PUT sends the request back as it is stored, with the state it asks for
\* and furnished as stored or 'N'
LifePuts(nrd) ==
    { Replacing(StaffPayload(state, Missing, nrd.consentFlag, nrd.consent_dt,
                             nrd.expirationDate, furnished), nrd) :
        state \in LifeStates \ {NoState}, furnished \in {nrd.furnished, "N"} }

\* a request in examination by u1, who makes all the calls
InitLife ==
    /\ nrs \in [NRIds -> { [r EXCEPT !.userId = "u1", !.names = names] :
                            r \in { x \in Rows : x.stateCd = "INPROGRESS"
                                                  /\ x.entity_type_cd = "CR" },
                            names \in LifeNames }]
    /\ payments = [n \in NRIds |-> << >>]
    /\ InitCommon

PatchLife ==
    \E n \in DOMAIN nrs, user \in {"u1"} :
        \E json_input \in LifePatches(nrs[n]) :
            /\ json_input.corpNum # "" => json_input.state = "CONSUMED"
            /\ RequestPatch(n, user, json_input)

PutLife ==
    \E n \in DOMAIN nrs, user \in {"u1"} :
        \E json_input \in LifePuts(nrs[n]) : RequestPut(n, user, json_input)

NextLife ==
    \/ PatchLife
    \/ PutLife

SpecLife == InitLife /\ [][NextLife]_vars

\* ------------------------------------------------------------------------
\* The replacement of a request: names and applicant of the payload of PUT,
\* while the examiner may hold another request in examination
\* ------------------------------------------------------------------------
\* a name of a payload, not examined
Sent(choice, name) == InName(choice, name, "NE", Null, "", TRUE)

\* the names lists the payloads carry; the last one has a name that
\* names_schema refuses
ReplaceNames ==
    { << >>,
      << Sent(1, "acme") >>,
      << Sent(1, "BETA") >>,
      << Sent(1, "") >>,
      << Sent(2, "GAMMA") >>,
      << Sent(1, "acme"), Sent(2, "GAMMA") >>,
      << Sent(1, "acme"), Sent(2, "") >>,
      << Sent(1, "acme"), Sent(3, "DELTA") >>,
      << Sent(1, "acme"), Sent(2, ""), Sent(3, "DELTA") >>,
      << Sent(1, "acme"), Sent(2, "GAMMA"), Sent(3, "DELTA") >>,
      << InName(1, "acme", "NE", Null, "", FALSE) >> }

\* no applicants object, an applicant, and one that applicant_schema refuses
ReplaceApplicants ==
    { << >>, << InApplicant("SMITH", TRUE) >>, << InApplicant("JONES", TRUE) >>,
      << InApplicant("SMITH", FALSE) >> }

\* the bodies of the payloads: every names list with the applicant as
\* stored, and every applicants object with a first name choice that
\* names_schema accepts or refuses
ReplaceBodies(nrd) ==
    { [names |-> names, applicants |-> AsInApplicants(nrd.applicants)] :
        names \in ReplaceNames }
    \cup { [names |-> << InName(1, "acme", "NE", Null, "", valid) >>,
            applicants |-> applicants] :
             valid \in BOOLEAN, applicants \in ReplaceApplicants }

\* the header goes back as it is stored, with the state the PUT asks for
ReplacePuts(nrd) ==
    { [StaffPayload(state, Missing, nrd.consentFlag, nrd.consent_dt, nrd.expirationDate,
                    nrd.furnished)
          EXCEPT !.names = body.names, !.applicants = body.applicants] :
        state \in {"DRAFT", "INPROGRESS"}, body \in ReplaceBodies(nrd) }

\* request 1 is a draft; request 2 is a draft or in examination by u1
InitReplace ==
    /\ nrs \in { [n \in StaffNRIds |-> IF n = 1 THEN r ELSE other] :
                    r \in { x \in Rows : x.stateCd = "DRAFT" /\ x.entity_type_cd = "CR" },
                    other \in { x \in Rows : x.stateCd = "DRAFT" /\ x.entity_type_cd = "CR" }
                              \cup { [x EXCEPT !.userId = "u1"] :
                                        x \in { y \in Rows : y.stateCd = "INPROGRESS"
                                                              /\ y.entity_type_cd = "CR" } } }
    /\ payments = [n \in StaffNRIds |-> << >>]
    /\ InitCommon

\* u1 replaces request 1
PutReplace ==
    \E json_input \in ReplacePuts(nrs[1]) : RequestPut(1, "u1", json_input)

\* u1 asks for the consumption of request 1
PatchConsume ==
    \E corpNum \in CorpNums :
        RequestPatch(1, "u1",
                     [StaffPayload("CONSUMED", Missing, NoFlag, Null, Null, Missing)
                         EXCEPT !.corpNum = corpNum])

NextReplace ==
    \/ PutReplace
    \/ PatchConsume

SpecReplace == InitReplace /\ [][NextReplace]_vars

\* ------------------------------------------------------------------------
\* payment_societies.py: PaymentSocieties.post, beside the calls of an
\* examiner whose save may fail
\* ------------------------------------------------------------------------
MaxSocieties == 2

\* the JSON body of the POST: empty, or with the keys it carries; nrNum 0:
\* the key is absent or empty
SocietyPayload(empty, nrNum, paymentStatusCode) ==
    [empty |-> empty, nrNum |-> nrNum, paymentStatusCode |-> paymentStatusCode]

SocietyRow(nrNum, paymentStatusCode) ==
    [nrNum |-> nrNum, paymentStatusCode |-> paymentStatusCode]

SocietyResponse(status, rows, socs, effects) ==
    [status |-> status, error |-> "", rows |-> rows, societies |-> socs,
     effects |-> effects]

\* the request leaves PENDING_PAYMENT when its payment is posted
post_drafts_Always(nrd) == TRUE

post_drafts(nrd) == nrd.stateCd = "PENDING_PAYMENT"

\* PaymentSocieties.post; raises: the lookup of the request raises.  The
\* requests carry formal NR numbers, which add_new_nr_number leaves alone.
PaymentSocieties_post(rows, socs, json_input, raises) ==
    IF json_input.empty
    THEN SocietyResponse(400, rows, socs, << >>)
    ELSE IF json_input.nrNum = Null
    THEN SocietyResponse(406, rows, socs, << >>)
    ELSE IF json_input.nrNum \notin DOMAIN rows \/ raises
    THEN SocietyResponse(404, rows, socs, << >>)
    ELSE LET nr  == json_input.nrNum
             nrd == rows[nr]
             ps_instance == SocietyRow(nr, json_input.paymentStatusCode)
             n1  == IF post_drafts(nrd) THEN [nrd EXCEPT !.stateCd = "DRAFT"] ELSE nrd
         IN  SocietyResponse(200, [rows EXCEPT ![nr] = n1], Append(socs, ps_instance),
                 << Effect("save_society", nr, json_input.paymentStatusCode),
                    Effect("save_request", nr, n1.stateCd) >>)

\* the record of a handled POST
SocietyCall(json_input, pre, preSocieties, r) ==
    [op |-> "PaymentSocieties.post", nr |-> json_input.nrNum, payload |-> json_input,
     pre |-> pre, preSocieties |-> preSocieties, status |-> r.status,
     error |-> r.error, effects |-> r.effects]

SocietyPayloads ==
    { SocietyPayload(TRUE, Null, "") }
    \cup { SocietyPayload(FALSE, nrNum, paymentStatusCode) :
             nrNum \in {Null} \cup StaffNRIds \cup {3},
             paymentStatusCode \in {"COMPLETED"} }

PostSociety ==
    \E json_input \in SocietyPayloads, raises \in BOOLEAN :
        \E r \in { PaymentSocieties_post(nrs, societies, json_input, raises) } :
            /\ Len(societies) < MaxSocieties
            /\ raises => json_input.nrNum \in DOMAIN nrs
            /\ nrs' = r.rows
            /\ societies' = r.societies
            /\ last' = SocietyCall(json_input,
                                   IF json_input.nrNum \in DOMAIN nrs
                                   THEN nrs[json_input.nrNum] ELSE NoCall.pre,
                                   societies, r) @@ [raises |-> raises]
            /\ UNCHANGED <<payments, uuids, now, sessions, expiries, emailer>>

\* the states an examiner's PATCH names here: none, the decisions, a
\* consumption, an examination and a name that is no state
AuditStates ==
    {NoState, "APPROVED", "CONDITIONAL", "REJECTED", "CONSUMED", "INPROGRESS",
     "NOT_A_STATE"}

AuditPatches ==
    { [StaffPayload(state, Missing, NoFlag, Null, Null, Missing) EXCEPT !.corpNum = corpNum] :
        state \in AuditStates, corpNum \in CorpNums }

\* u1 patches request 1; the save of the request may raise
PatchAudit ==
    \E json_input \in AuditPatches, raises \in BOOLEAN :
        /\ json_input.corpNum # "" => json_input.state = "CONSUMED"
        /\ \E allowed \in Answers(json_input), existing \in Existing("u1") :
            \E r \in { Request_patch_saving("u1", 1, nrs, json_input, allowed, existing,
                                            now, raises) } :
                /\ r.computed => expiries[1] < MaxExpiries
                /\ raises => r.status = 500
                /\ nrs' = r.rows
                /\ expiries' = IF r.computed THEN [expiries EXCEPT ![1] = @ + 1]
                               ELSE expiries
                /\ now' = IF r.computed THEN now + 1 ELSE now
                /\ last' = StaffCall("Request.patch", "u1", 1, json_input, nrs[1],
                                     existing, r) @@ [raises |-> raises]
                /\ UNCHANGED <<payments, uuids, sessions, societies, emailer>>

\* request 1 waits for its payment or is in examination by u1, with names
\* examined or not; request 2 is a draft, waits for its payment or is in
\* examination by u1
InitAudit ==
    /\ nrs \in { [n \in StaffNRIds |-> IF n = 1 THEN r ELSE other] :
                    r \in { [x EXCEPT !.userId = "u1", !.names = names] :
                               x \in { y \in Rows : y.stateCd \in {"PENDING_PAYMENT",
                                                                   "INPROGRESS"}
                                                     /\ y.entity_type_cd = "CR" },
                               names \in LifeNames },
                    other \in { [x EXCEPT !.userId = "u1"] :
                                   x \in { y \in Rows : y.stateCd \in {"DRAFT", "INPROGRESS",
                                                                       "PENDING_PAYMENT"}
                                                         /\ y.entity_type_cd = "CR" } } }
    /\ payments = [n \in StaffNRIds |-> << >>]
    /\ InitCommon

NextAudit ==
    \/ PostSociety
    \/ PatchAudit

SpecAudit == InitAudit /\ [][NextAudit]_vars

\* ------------------------------------------------------------------------
\* requests.py: NRNames, the PUT and the PATCH of one name choice
\* ------------------------------------------------------------------------
\* the fields of a name record that the model carries
NameFields == {"choice", "name", "state", "consumptionDate", "corpNum"}

\* None in a field of a name record: no number, no date, no text
NoneOf(field) == IF field \in {"choice", "consumptionDate"} THEN Null ELSE ""

\* the JSON body of a call on a name choice: the keys it has and their
\* values; valid: names_schema.validate finds no error; comment: the text
\* of the comment object ("": none)
NamePayload(keys, choice, name, state, consumptionDate, corpNum, comment, valid) ==
    [keys |-> keys, choice |-> choice, name |-> name, state |-> state,
     consumptionDate |-> consumptionDate, corpNum |-> corpNum, comment |-> comment,
     valid |-> valid]

\* json_data.get(field)
get(json_data, field) ==
    IF field \in json_data.keys THEN json_data[field] ELSE NoneOf(field)

\* check_ownership of namex.services.name_request.utils: the request is in
\* examination and the user is the one who examines it
check_ownership(nrd, user) == nrd.stateCd = "INPROGRESS" /\ nrd.userId = user

names_forbidden_Never(nrd, user) == FALSE

\* the calls on a name choice answer 403 to anybody else
names_forbidden(nrd, user) == ~check_ownership(nrd, user)

\* NRNames.common: the position of the name with this choice among the
\* names of the request, 0 when the request or the choice is not there
common(rows, nr, choice) ==
    IF nr \notin DOMAIN rows THEN 0
    ELSE LET hits == { i \in 1..Len(rows[nr].names) : rows[nr].names[i].choice = choice }
         IN  IF hits = {} THEN 0 ELSE CHOOSE i \in hits : \A j \in hits : i <= j

\* the assignments of PUT and PATCH: every field of the record is set to
\* what json_data.get returns, the name in upper case
assigned(nrd_name, json_data) ==
    [f \in NameFields |->
        IF f = "name" THEN upper(get(json_data, "name")) ELSE get(json_data, f)]

NameResponse(status, rows, effects, idx) ==
    [status |-> status, error |-> "", rows |-> rows, effects |-> effects, idx |-> idx]

\* NRNames.patch; a body without name makes nrd_name.name.upper() raise
\* before anything is saved
NRNames_patch(user, nr, choice, rows, json_data) ==
    LET idx == common(rows, nr, choice)
    IN  IF json_data.keys = {} \/ ~json_data.valid
        THEN NameResponse(400, rows, << >>, 0)
        ELSE IF idx = 0
        THEN NameResponse(404, rows, << >>, 0)
        ELSE IF names_forbidden(rows[nr], user)
        THEN NameResponse(403, rows, << >>, idx)
        ELSE IF "name" \notin json_data.keys
        THEN NameResponse(500, rows, << >>, idx)
        ELSE NameResponse(200,
                 [rows EXCEPT ![nr].names[idx] = assigned(@, json_data)],
                 << Effect("save_name", nr, ToString(idx)), Effect("event", nr, "PATCH") >>,
                 idx)

\* NRNames.put; the body has every key when names_schema accepts it;
\* raises: nrd_name.save_to_db raises, after the comment was saved
NRNames_put(user, nr, choice, rows, json_data, raises) ==
    LET idx == common(rows, nr, choice)
        commented == IF json_data.comment # ""
                     THEN << Effect("save_comment", nr, json_data.comment) >>
                     ELSE << >>
    IN  IF json_data.keys = {} \/ ~json_data.valid
        THEN NameResponse(400, rows, << >>, 0)
        ELSE IF idx = 0
        THEN NameResponse(404, rows, << >>, 0)
        ELSE IF names_forbidden(rows[nr], user)
        THEN NameResponse(403, rows, << >>, idx)
        ELSE IF raises
        THEN NameResponse(500, rows, commented, idx)
        ELSE NameResponse(200,
                 [rows EXCEPT ![nr].names[idx] = assigned(@, json_data)],
                 commented
                 \o << Effect("save_name", nr, ToString(idx)), Effect("event", nr, "PUT") >>,
                 idx)

\* the record of a handled call on a name choice; idx: the position of the
\* name among the names of the request
NameCall(op, user, nr, choice, json_data, pre, r) ==
    [op |-> op, user |-> user, nr |-> nr, choice |-> choice, payload |-> json_data,
     pre |-> pre, status |-> r.status, error |-> r.error, effects |-> r.effects,
     idx |-> r.idx]

\* what a PATCH sends: any of the keys, with a decision on the name
NamePatches(choice) ==
    { NamePayload(keys, choice, "acme", "APPROVED", Null, "", "", TRUE) :
        keys \in SUBSET {"choice", "name", "state"} }
    \cup { NamePayload({"name", "corpNum", "consumptionDate"}, choice, "acme", "",
                       2, "BC7654321", "", TRUE),
           NamePayload({"name"}, choice, "acme", "", Null, "", "", FALSE) }

\* what a PUT sends: the whole record, or nothing
NamePuts(choice) ==
    { NamePayload(NameFields, choice, name, state, Null, "", comment, TRUE) :
        name \in {"acme", "BETA"}, state \in {"NE", "REJECTED"}, comment \in {"", "ok"} }
    \cup { NamePayload({}, choice, "", "", Null, "", "", TRUE),
           NamePayload(NameFields, choice, "acme", "NE", Null, "", "", FALSE) }

NamesPatch ==
    \E user \in Users, nr \in NRIds \cup {2}, choice \in {1, 2} :
        \E json_data \in NamePatches(choice) :
            \E r \in { NRNames_patch(user, nr, choice, nrs, json_data) } :
                /\ nr \notin DOMAIN nrs => user = "u1"
                /\ nrs' = r.rows
                /\ last' = NameCall("NRNames.patch", user, nr, choice, json_data,
                                    IF nr \in DOMAIN nrs THEN nrs[nr] ELSE NoCall.pre, r)
                /\ UNCHANGED <<payments, uuids, now, sessions, expiries, societies, emailer>>

NamesPut ==
    \E user \in Users, nr \in NRIds \cup {2}, choice \in {1, 2}, raises \in BOOLEAN :
        \E json_data \in NamePuts(choice) :
            \E r \in { NRNames_put(user, nr, choice, nrs, json_data, raises) } :
                /\ raises => r.status = 500
                /\ nr \notin DOMAIN nrs => user = "u1"
                /\ nrs' = r.rows
                /\ last' = NameCall("NRNames.put", user, nr, choice, json_data,
                                    IF nr \in DOMAIN nrs THEN nrs[nr] ELSE NoCall.pre, r)
                /\ UNCHANGED <<payments, uuids, now, sessions, expiries, societies, emailer>>

\* a request that is a draft or in examination by u1, with one or two
\* names, examined and consumed or not
InitNames ==
    /\ nrs \in [NRIds -> { [r EXCEPT !.userId = "u1", !.names = names] :
                            r \in { x \in Rows : x.stateCd \in {"DRAFT", "INPROGRESS"}
                                                  /\ x.entity_type_cd = "CR" },
                            names \in LifeNames
                                      \cup { << NameRow(1, "ACME", "APPROVED", 1,
                                                        "BC1234567") >> } }]
    /\ payments = [n \in NRIds |-> << >>]
    /\ InitCommon

NextNames ==
    \/ NamesPatch
    \/ NamesPut

SpecNames == InitNames /\ [][NextNames]_vars

\* ------------------------------------------------------------------------
\* namex_emailer/email_processors/name_request.py: the email that follows
\* the payment of a name request
\* ------------------------------------------------------------------------
\* HTTPStatus.OK
OK == 200

\* what the processor meets: the cloud event (paymentToken), the answer of
\* the NR lookup (nr_status, nr_id, emailAddress), the bearer token, the
\* answer to the payments request and the answer to the receipt request
MailEnv(payment_token, nr_status, nr_id, emailAddress, token, payments_status, nr_payments, receipt_status) ==
    [payment_token |-> payment_token, nr_status |-> nr_status, nr_id |-> nr_id,
     emailAddress |-> emailAddress, token |-> token,
     payments_status |-> payments_status, nr_payments |-> nr_payments,
     receipt_status |-> receipt_status]

PaymentOf(token, id) == [token |-> token, id |-> id]

\* the loop over the payments: the id of the last payment with the token,
\* 0 when there is none
payment_matches_Any(payment_token, payment) == TRUE

payment_matches(payment_token, payment) == payment_token = payment.token

RECURSIVE find_payment_id(_, _, _, _)
find_payment_id(nr_payments, payment_token, i, payment_id) ==
    IF i > Len(nr_payments) THEN payment_id
    ELSE find_payment_id(nr_payments, payment_token, i + 1,
                         IF payment_matches(payment_token, nr_payments[i])
                         THEN nr_payments[i].id ELSE payment_id)

\* _get_pdfs: the receipt of the payment, and the requests made for it
get_pdfs(nr_id, payment_token, env) ==
    LET asked_token    == << Effect("get_bearer_token", 0, "") >>
        asked_payments == asked_token \o << Effect("get_payments", nr_id, "") >>
        payment_id     == find_payment_id(env.nr_payments, payment_token, 1, 0)
        asked_receipt  == asked_payments \o << Effect("post_receipt", payment_id, "") >>
    IN  IF env.token = "" \/ nr_id = 0 \/ payment_token = ""
        THEN [pdfs |-> << >>, effects |-> asked_token]
        ELSE IF env.payments_status # OK
        THEN [pdfs |-> << >>, effects |-> asked_payments]
        ELSE IF payment_id = 0
        THEN [pdfs |-> << >>, effects |-> asked_payments]
        ELSE IF env.receipt_status # OK
        THEN [pdfs |-> << >>, effects |-> asked_receipt]
        ELSE [pdfs |-> << "Receipt.pdf" >>, effects |-> asked_receipt]

\* the empty result and the email
NoEmail == [recipients |-> "", attachments |-> << >>]

\* process: the NR lookup, the template, the receipt, the recipients
process(env) ==
    LET asked_nr == << Effect("query_nr_number", 0, "") >>
        got      == get_pdfs(env.nr_id, env.payment_token, env)
    IN  IF env.nr_status # OK
        THEN [email |-> NoEmail, effects |-> asked_nr]
        ELSE IF got.pdfs = << >>
        THEN [email |-> NoEmail, effects |-> asked_nr \o got.effects]
        ELSE IF env.emailAddress = ""
        THEN [email |-> NoEmail, effects |-> asked_nr \o got.effects]
        ELSE [email |-> [recipients |-> env.emailAddress, attachments |-> got.pdfs],
              effects |-> asked_nr \o got.effects]

MailEnvs ==
    { MailEnv(payment_token, nr_status, nr_id, emailAddress, token, payments_status,
              nr_payments, receipt_status) :
        payment_token \in {"", "t1"}, nr_status \in {OK, 404}, nr_id \in {0, 1},
        emailAddress \in {"", "a@b.ca"}, token \in {"", "jwt"},
        payments_status \in {OK, 500},
        nr_payments \in { << >>, << PaymentOf("t1", 1) >>, << PaymentOf("t2", 2) >>,
                          << PaymentOf("t1", 1), PaymentOf("t2", 2) >>,
                          << PaymentOf("", 3) >> },
        receipt_status \in {OK, 500} }

\* the record of a handled event
MailCall(env, r) ==
    [op |-> "process", env |-> env, email |-> r.email, effects |-> r.effects]

Process ==
    \E env \in MailEnvs :
        /\ last' = MailCall(env, process(env))
        /\ UNCHANGED <<nrs, payments, uuids, now, sessions, expiries, societies, emailer>>

\* the processor reads no request of the API's store
InitProcess ==
    /\ nrs \in [NRIds -> { r \in Rows : r.stateCd = "DRAFT" /\ r.entity_type_cd = "CR" }]
    /\ payments = [n \in NRIds |-> << >>]
    /\ InitCommon

NextProcess == Process

SpecProcess == InitProcess /\ [][NextProcess]_vars

\* ------------------------------------------------------------------------
\* namex_emailer: the worker that receives the published events, the
\* scheduler of the decision emails and the handler of the scheduled
\* emails.  Their sources are not among the resources; the model follows
\* what tests/unit/test_email_task_scheduling.py drives them through.
\* ------------------------------------------------------------------------
MaxEvents == 2

\* a cloud event: its id and the request fields nrNum and option
CloudEvent(id, nrNum, option) == [id |-> id, nrNum |-> nrNum, option |-> option]

\* a Cloud Task: its name holds the NR number and the option, its body is
\* the cloud event
Task(ce) == [nrNum |-> ce.nrNum, option |-> ce.option, ce |-> ce]

\* is_reset and is_schedulable of email_scheduler
is_reset_Never(ce) == FALSE

is_reset(ce) == ce.option = "RESET"

is_schedulable(ce) == ce.option \in {"APPROVED", "CONDITIONAL", "REJECTED"}

\* list_tasks, narrowed to the tasks of the NR of the event
in_flight(queue, ce) == { t \in queue : t.nrNum = ce.nrNum }

\* the delete_task calls for a set of tasks, in the order of the event ids
RECURSIVE deletions(_)
deletions(pending) ==
    IF pending = {} THEN << >>
    ELSE LET t == CHOOSE x \in pending : \A y \in pending : x.ce.id <= y.ce.id
         IN  << Effect("delete_task", t.nrNum, t.option) >> \o deletions(pending \ {t})

\* cancel_any_in_flight_email_tasks: the pending tasks of the NR are deleted
cancel_any_in_flight_email_tasks(queue, ce) ==
    [tasks |-> queue \ in_flight(queue, ce),
     effects |-> deletions(in_flight(queue, ce))]

\* schedule_email: the pending tasks of the NR are deleted, then one task
\* is created for the event
schedule_email_KeepPending(queue, ce) ==
    [tasks |-> queue \cup {Task(ce)},
     effects |-> << Effect("create_task", ce.nrNum, ce.option) >>]

schedule_email(queue, ce) ==
    LET cancelled == cancel_any_in_flight_email_tasks(queue, ce)
    IN  [tasks |-> cancelled.tasks \cup {Task(ce)},
         effects |-> cancelled.effects
                     \o << Effect("create_task", ce.nrNum, ce.option) >>]

MailResponse(status, queue, cache, delivered, effects) ==
    [status |-> status, tasks |-> queue, ce_cache |-> cache, sent |-> delivered,
     effects |-> effects]

\* the worker: a RESET cancels the pending email of the NR, a decision is
\* scheduled, anything else is processed and sent at once
worker(queue, cache, delivered, ce) ==
    IF is_reset(ce)
    THEN LET cancelled == cancel_any_in_flight_email_tasks(queue, ce)
         IN  MailResponse(200, cancelled.tasks, cache \cup {ce.id}, delivered,
                          cancelled.effects)
    ELSE IF is_schedulable(ce)
    THEN LET scheduled == schedule_email(queue, ce)
         IN  MailResponse(200, scheduled.tasks, cache, delivered, scheduled.effects)
    ELSE MailResponse(200, queue, cache \cup {ce.id}, delivered,
                      << Effect("process_email", ce.nrNum, ce.option),
                         Effect("send_email", ce.nrNum, ce.option) >>)

\* the handler acknowledges an event it has handled before without sending
handler_skips_Never(cache, ce) == FALSE

handler_skips(cache, ce) == ce.id \in cache

\* the handler of the scheduled emails; send_status: what send_email
\* answers.  A delivery that fails is not cached and answers 500.
deliver_scheduled_email(queue, cache, delivered, ce, send_status) ==
    IF handler_skips(cache, ce)
    THEN MailResponse(200, queue, cache, delivered, << >>)
    ELSE LET tried == << Effect("process_email", ce.nrNum, ce.option),
                         Effect("get_bearer_token", 0, ""),
                         Effect("send_email", ce.nrNum, ce.option) >>
         IN  IF send_status = OK
             THEN MailResponse(200, queue, cache \cup {ce.id}, Append(delivered, ce.id),
                               tried \o << Effect("write_to_events", ce.nrNum, ce.option) >>)
             ELSE MailResponse(500, queue, cache, delivered, tried)

\* the record of a handled event
EventCall(op, ce, r) ==
    [op |-> op, ce |-> ce, status |-> r.status, effects |-> r.effects,
     preTasks |-> tasks, preCache |-> ce_cache]

\* queue_util.publish_email_notification: the k-th notification of a call
\* becomes a cloud event with a fresh id
Published(effects, base) ==
    LET at == { i \in 1..Len(effects) : effects[i].kind = "publish_email_notification" }
    IN  { CloudEvent(base + Cardinality({ j \in at : j <= i }), effects[i].idx,
                     effects[i].txt) : i \in at }

\* the decisions and the examination u1 asks for with PATCH
MailPatches ==
    { StaffPayload(state, Missing, NoFlag, Null, Null, Missing) :
        state \in {"INPROGRESS", "APPROVED", "REJECTED"} }

\* the PUT that takes the request back into examination, furnished as
\* stored or 'N'
MailPuts(nrd) ==
    { Replacing(StaffPayload("INPROGRESS", Missing, nrd.consentFlag, nrd.consent_dt,
                             nrd.expirationDate, furnished), nrd) :
        furnished \in {nrd.furnished, "N"} }

\* u1 patches request 1; the notification of a decision is published
PatchPublishing ==
    \E json_input \in MailPatches :
        \E r \in { Request_patch("u1", 1, nrs, json_input, TRUE, 0, now) } :
            \E events \in { Published(r.effects, uuids) } :
                /\ uuids + Cardinality(events) <= MaxEvents
                /\ r.computed => expiries[1] < MaxExpiries
                /\ nrs' = r.rows
                /\ expiries' = IF r.computed THEN [expiries EXCEPT ![1] = @ + 1]
                               ELSE expiries
                /\ now' = IF r.computed THEN now + 1 ELSE now
                /\ uuids' = uuids + Cardinality(events)
                /\ inbox' = inbox \cup events
                /\ last' = StaffCall("Request.patch", "u1", 1, json_input, nrs[1], 0, r)
                /\ UNCHANGED <<payments, sessions, societies, tasks, ce_cache, sent>>

\* u1 replaces request 1; a reset is published
PutPublishing ==
    \E json_input \in MailPuts(nrs[1]) :
        \E r \in { Request_put("u1", 1, nrs, json_input, TRUE, 0) } :
            \E events \in { Published(r.effects, uuids) } :
                /\ uuids + Cardinality(events) <= MaxEvents
                /\ nrs' = r.rows
                /\ uuids' = uuids + Cardinality(events)
                /\ inbox' = inbox \cup events
                /\ last' = StaffCall("Request.put", "u1", 1, json_input, nrs[1], 0, r)
                /\ UNCHANGED <<payments, now, sessions, expiries, societies, tasks,
                               ce_cache, sent>>

\* another request, number 2, gets a decision, is reset, or nears its expiry
PublishOther ==
    \E option \in {"APPROVED", "RESET", "before-expiry"} :
        /\ uuids < MaxEvents
        /\ uuids' = uuids + 1
        /\ inbox' = inbox \cup {CloudEvent(uuids + 1, 2, option)}
        /\ last' = [NoCall EXCEPT !.op = "publish"]
        /\ UNCHANGED <<nrs, payments, now, sessions, expiries, societies, tasks,
                       ce_cache, sent>>

\* the queue delivers a published event to the worker, any number of times
Worker ==
    \E ce \in inbox :
        \E r \in { worker(tasks, ce_cache, sent, ce) } :
            /\ tasks' = r.tasks
            /\ ce_cache' = r.ce_cache
            /\ last' = EventCall("worker", ce, r)
            /\ UNCHANGED <<nrs, payments, uuids, now, sessions, expiries, societies,
                           inbox, sent>>

\* Cloud Tasks delivers a scheduled email to the handler; the task is gone
\* once a delivery was answered 200 and acknowledged, else it comes again
Deliver ==
    \E t \in tasks, send_status \in {OK, 500}, acked \in BOOLEAN :
        \E r \in { deliver_scheduled_email(tasks, ce_cache, sent, t.ce, send_status) } :
            /\ tasks' = IF r.status = 200 /\ acked THEN r.tasks \ {t} ELSE r.tasks
            /\ ce_cache' = r.ce_cache
            /\ sent' = r.sent
            /\ last' = EventCall("deliver_scheduled_email", t.ce, r)
            /\ UNCHANGED <<nrs, payments, uuids, now, sessions, expiries, societies,
                           inbox>>

\* request 1 is in examination by u1
InitMail ==
    /\ nrs \in [NRIds -> { [r EXCEPT !.userId = "u1"] :
                            r \in { x \in Rows : x.stateCd = "INPROGRESS"
                                                  /\ x.entity_type_cd = "CR" } }]
    /\ payments = [n \in NRIds |-> << >>]
    /\ InitCommon

NextMail ==
    \/ PatchPublishing
    \/ PutPublishing
    \/ PublishOther
    \/ Worker
    \/ Deliver

SpecMail == InitMail /\ [][NextMail]_vars

\* ------------------------------------------------------------------------
\* Properties
\* ------------------------------------------------------------------------
\* the last call was this PATCH action, by a caller with access
Patched(nr_action) ==
    last.op = "PATCH" /\ last.nr_action = nr_action /\ last.status # 403

\* the request of the last call, its payments and its collaborators are as
\* they were before the call
Untouched ==
    /\ nrs[last.nr] = last.pre
    /\ payments[last.nr] = last.prePayments
    /\ last.effects = << >>

\* the request has been renewed: one of its payments is a REAPPLY
Renewed(pays) ==
    \E i \in 1..Len(pays) : pays[i].payment_action = "REAPPLY"

\* the caller of the last call did not present the token the request held
NotHolder ==
    last.pre.checkedOutBy # Null /\ last.payload.checkedOutBy # last.pre.checkedOutBy

\* the payload state of the last call passes the PATCH validation
PatchStateValid ==
    LET request_state == IF last.payload.stateCd = NoState THEN last.pre.stateCd
                         ELSE last.payload.stateCd
    IN  request_state \in request_editable_states \cup contact_editable_states

\* C1: a CHECKOUT on a request that is checked out, by a caller presenting
\* another token or none, fails with the lock error (423) and leaves the
\* request's state, owner and token as they were.
C1_ConflictingCheckoutRejected ==
    (Patched("CHECKOUT") /\ NotHolder)
        => /\ last.status = 423
           /\ last.error = "NameRequestIsInProgressError"
           /\ Untouched

C1_Witness ==
    /\ Patched("CHECKOUT") /\ NotHolder
    /\ last.status = 423
    /\ nrs[last.nr].checkedOutBy = last.pre.checkedOutBy
    /\ nrs[last.nr].stateCd = "INPROGRESS"

\* C2: of two CHECKOUT calls for the same request that both read a null
\* token before either writes, at most one succeeds: no successful call
\* replaces the token another such call was given.
C2_AtMostOneCheckoutWins ==
    \A c1, c2 \in Callers :
        ~ /\ c1 # c2
          /\ sessions[c1].pc = "done" /\ sessions[c2].pc = "done"
          /\ sessions[c1].status = 200 /\ sessions[c2].status = 200
          /\ sessions[c1].nr = sessions[c2].nr
          /\ sessions[c1].nr_model.checkedOutBy = Null
          /\ sessions[c2].nr_model.checkedOutBy = Null
          /\ sessions[c2].overwrote = sessions[c1].checkedOutBy

\* C3: while a request is checked out, every mutating call (PATCH actions
\* other than CHECKOUT, rollback, PUT) by a caller that does not present the
\* held token is rejected and leaves the request unchanged.
C3_NonHolderCannotMutate ==
    (last.op \in {"PATCH", "PUT", "ROLLBACK"} /\ last.status # 403 /\ NotHolder)
        => last.status # 200 /\ nrs[last.nr] = last.pre

\* C4 as stated: CHECKOUT on any request whose token is null succeeds and
\* leaves it INPROGRESS, with a fresh token, a timestamp and the service
\* account as owner.
C4_CheckoutOfFreeRequestSucceeds ==
    (Patched("CHECKOUT") /\ last.pre.checkedOutBy = Null)
        => /\ last.status = 200
           /\ nrs[last.nr].stateCd = "INPROGRESS"
           /\ nrs[last.nr].checkedOutBy = uuids /\ uuids # Null
           /\ nrs[last.nr].checkedOutDt # Null
           /\ nrs[last.nr].userId = service_account_user

\* C4 amended: CHECKOUT on a request whose token is null and whose state is
\* request-editable succeeds and leaves it INPROGRESS, with a token never
\* handed out before, a timestamp and the service account as owner.
C4_CheckoutOfFreeEditableRequestSucceeds ==
    (Patched("CHECKOUT") /\ last.pre.checkedOutBy = Null
        /\ is_request_editable(last.pre.stateCd))
        => /\ last.status = 200
           /\ nrs[last.nr].stateCd = "INPROGRESS"
           /\ nrs[last.nr].checkedOutBy = uuids /\ uuids # Null
           /\ nrs[last.nr].checkedOutBy # last.pre.checkedOutBy
           /\ nrs[last.nr].checkedOutDt # Null
           /\ nrs[last.nr].userId = service_account_user

C4_Witness ==
    /\ Patched("CHECKOUT") /\ last.pre.checkedOutBy = Null
    /\ last.pre.stateCd = "DRAFT" /\ last.pre.userId = "client"
    /\ last.status = 200
    /\ nrs[last.nr].stateCd = "INPROGRESS"
    /\ nrs[last.nr].checkedOutBy # Null

\* C5 as stated: CHECKOUT succeeds only if the state of the request is
\* request-editable and no other token is active; in every other case, the
\* holder presenting its token on a request that is not request-editable
\* included, it is rejected and the request is left as it was.
C5_CheckoutOnlyFromEditableState ==
    Patched("CHECKOUT")
        => IF is_request_editable(last.pre.stateCd) /\ ~NotHolder
           THEN TRUE
           ELSE last.status # 200 /\ nrs[last.nr] = last.pre

\* C5 amended: CHECKOUT succeeds only if no token is active and the state is
\* request-editable, or the caller presents the active token and the state
\* passes the PATCH state validation; in every other case it is rejected and
\* the request is left as it was.
C5_CheckoutOnlyFreeEditableOrHolder ==
    Patched("CHECKOUT")
        => IF \/ last.pre.checkedOutBy = Null /\ is_request_editable(last.pre.stateCd)
              \/ last.pre.checkedOutBy # Null /\ ~NotHolder /\ PatchStateValid
           THEN TRUE
           ELSE last.status # 200 /\ Untouched

C5_Witness ==
    /\ Patched("CHECKOUT")
    /\ last.pre.checkedOutBy = Null
    /\ last.pre.stateCd \in {"INPROGRESS", "HOLD", "APPROVED"}
    /\ last.status = 423
    /\ nrs[last.nr].stateCd = last.pre.stateCd

\* C6: a successful CHECKIN leaves the request in DRAFT with no token and no
\* checkout timestamp, whatever its state was; so does CHECKIN after the
\* CHECKOUT of a DRAFT request.
C6_CheckinLeavesDraftUnlocked ==
    (Patched("CHECKIN") /\ last.status = 200)
        => /\ nrs[last.nr].stateCd = "DRAFT"
           /\ nrs[last.nr].checkedOutBy = Null
           /\ nrs[last.nr].checkedOutDt = Null

C6_Witness ==
    /\ Patched("CHECKIN") /\ last.status = 200
    /\ last.pre.stateCd = "INPROGRESS" /\ last.pre.checkedOutBy # Null
    /\ last.pre.userId = service_account_user
    /\ nrs[last.nr].stateCd = "DRAFT" /\ nrs[last.nr].checkedOutBy = Null

\* C7: a PUT on a request whose persisted state is none of DRAFT,
\* COND_RESERVE, RESERVED, PENDING_PAYMENT is answered with an error, never
\* with a success that skipped the update.
C7_PutOutsideUpdateStatesRejected ==
    (last.op = "PUT" /\ last.status # 403 /\ last.pre.stateCd \notin valid_update_states)
        => last.status # 200

\* C8: REQUEST_REFUND on a request that is not refundable is rejected before
\* any effect: state and payments stay as they were, no refund is called and
\* no notification is published.
C8_RefundOfNonRefundableRejected ==
    (Patched("REQUEST_REFUND") /\ ~is_name_request_refundable(last.pre.stateCd))
        => /\ last.status \notin {200}
           /\ last.error # ""
           /\ Untouched
           /\ ~Has(last.effects, "refund_payment")
           /\ ~Has(last.effects, "publish_email_notification")

C8_Witness ==
    /\ Patched("REQUEST_REFUND")
    /\ last.pre.stateCd = "APPROVED"
    /\ last.payload.stateCd = NoState
    /\ \E i \in 1..Len(last.prePayments) :
           /\ last.prePayments[i].payment_status_code \in valid_states
           /\ payments[last.nr][i].payment_status_code
                  = last.prePayments[i].payment_status_code
    /\ ~Renewed(last.prePayments)
    /\ last.status = 423

\* C9: the lock error (423) is the answer to a checkout conflict only; any
\* other illegal transition, REQUEST_REFUND on a request that is not
\* refundable for one, is answered with a validation error.
C9_LockErrorOnlyForCheckout ==
    (last.op = "PATCH" /\ last.status = 423) => last.nr_action = "CHECKOUT"

\* C10: an accepted REQUEST_REFUND on a request with a REAPPLY payment
\* refunds nothing: no refund call, no payment status changed, and one
\* refund notification with the amount "0.00".
C10_RenewedRequestNotRefunded ==
    (Patched("REQUEST_REFUND") /\ is_name_request_refundable(last.pre.stateCd)
        /\ PatchStateValid /\ Renewed(last.prePayments))
        => /\ last.status = 200
           /\ ~Has(last.effects, "refund_payment")
           /\ ~Has(last.effects, "get_payment")
           /\ ~Has(last.effects, "save_payment")
           /\ payments[last.nr] = last.prePayments
           /\ Count(last.effects, "publish_email_notification") = 1
           /\ \A i \in 1..Len(last.effects) :
                  last.effects[i].kind = "publish_email_notification"
                      => last.effects[i].txt = "0.00"

C10_Witness ==
    /\ Patched("REQUEST_REFUND") /\ last.status = 200
    /\ Renewed(last.prePayments)
    /\ \E i \in 1..Len(last.prePayments) :
           /\ last.prePayments[i].payment_action # "REAPPLY"
           /\ last.prePayments[i].payment_status_code \in valid_states
    /\ nrs[last.nr].stateCd = "REFUND_REQUESTED"
    /\ Has(last.effects, "publish_email_notification")

\* the refund of the last call ran to its end
RefundDone == Patched("REQUEST_REFUND") /\ last.status = 200

\* payment i of the request was one the refund of the last call had to
\* process: its status was APPROVED, COMPLETED or PARTIAL
Eligible(i) ==
    last.prePayments[i].payment_status_code \in {"APPROVED", "COMPLETED", "PARTIAL"}

\* where the last call did this to payment idx, in the order of its effects
Positions(kind, idx) ==
    { k \in 1..Len(last.effects) :
        last.effects[k].kind = kind /\ last.effects[k].idx = idx }

PaymentEffects == {"get_payment", "refund_payment", "save_payment"}

\* C11: after a completed REQUEST_REFUND on a request with no REAPPLY
\* payment, every payment that was APPROVED, COMPLETED or PARTIAL is
\* REFUND_REQUESTED, every other payment is unchanged, and a refund call was
\* issued once for each eligible payment whose total is not zero and for no
\* other payment.
C11_EligiblePaymentsRefunded ==
    (RefundDone /\ ~Renewed(last.prePayments))
        => /\ Len(payments[last.nr]) = Len(last.prePayments)
           /\ \A i \in 1..Len(last.prePayments) :
                /\ payments[last.nr][i] =
                       IF Eligible(i)
                       THEN [last.prePayments[i] EXCEPT
                               !.payment_status_code = "REFUND_REQUESTED"]
                       ELSE last.prePayments[i]
                /\ Cardinality(Positions("refund_payment", i)) =
                       IF Eligible(i) /\ last.gateway[i].total # 0 THEN 1 ELSE 0
           /\ Count(last.effects, "refund_payment") =
                  Cardinality({ i \in 1..Len(last.prePayments) :
                                  Eligible(i) /\ last.gateway[i].total # 0 })

C11_Witness ==
    /\ RefundDone /\ ~Renewed(last.prePayments)
    /\ Len(last.prePayments) = 2
    /\ last.prePayments[1].payment_status_code = "PARTIAL"
    /\ last.gateway[1].total # 0
    /\ Positions("refund_payment", 1) # {}
    /\ payments[last.nr][1].payment_status_code = "REFUND_REQUESTED"
    /\ last.prePayments[2].payment_status_code = "CREATED"
    /\ payments[last.nr][2].payment_status_code = "CREATED"

\* C12: when the refund call of one payment fails during REQUEST_REFUND,
\* every other eligible payment is still marked REFUND_REQUESTED and the
\* refund notification is still published.
C12_RefundFailureDoesNotBlock ==
    \A j \in 1..Len(last.prePayments) :
        (Patched("REQUEST_REFUND") /\ j \in last.faults.refund
            /\ Positions("refund_payment", j) # {})
            => /\ \A i \in 1..Len(last.prePayments) :
                    (i # j /\ Eligible(i))
                        => payments[last.nr][i].payment_status_code = "REFUND_REQUESTED"
               /\ Count(last.effects, "publish_email_notification") = 1

\* the sum, over the first i payments, of the first receipt's amount of each
\* payment the refund had to process
RECURSIVE ReceiptSum(_)
ReceiptSum(i) ==
    IF i = 0 THEN 0
    ELSE ReceiptSum(i - 1)
         + (IF ~Renewed(last.prePayments) /\ Eligible(i)
               /\ Len(last.gateway[i].receipts) > 0
            THEN last.gateway[i].receipts[1]
            ELSE 0)

\* C13: a completed REQUEST_REFUND publishes exactly one refund notification,
\* after everything it did to the payments; its amount is the sum of the first
\* receipt's amount over the eligible payments (0 for a payment without a
\* receipt), formatted with two decimals, and it is published when no payment
\* was eligible too.
C13_OneRefundNotification ==
    RefundDone
        => /\ Count(last.effects, "publish_email_notification") = 1
           /\ \A k \in 1..Len(last.effects) :
                last.effects[k].kind = "publish_email_notification"
                    => /\ last.effects[k].txt = Format2f(ReceiptSum(Len(last.prePayments)))
                       /\ \A j \in 1..Len(last.effects) :
                            last.effects[j].kind \in PaymentEffects => j < k
           /\ \A i \in 1..Len(last.prePayments) :
                (~Renewed(last.prePayments) /\ Eligible(i))
                    => Positions("save_payment", i) # {}

C13_Witness ==
    /\ RefundDone /\ ~Renewed(last.prePayments)
    /\ Len(last.prePayments) = 2
    /\ Eligible(1) /\ Eligible(2)
    /\ last.gateway[1] = [total |-> 3150, receipts |-> << >>]
    /\ last.gateway[2] = [total |-> 0, receipts |-> <<150>>]
    /\ \E k \in 1..Len(last.effects) :
           /\ last.effects[k].kind = "publish_email_notification"
           /\ last.effects[k].txt = "1.50"

\* C14: REQUEST_REFUND moves the request to REFUND_REQUESTED first, then
\* refunds the payments, then deletes the search-index document, then records
\* the event: no refund call comes before the state transition, whether the
\* call completes or not, and the event is the last thing a completed call
\* does.
C14_RefundStepsInOrder ==
    /\ (Patched("REQUEST_REFUND") /\ last.effects # << >>)
           => /\ last.effects[1] = Effect("save_request", 0, "REFUND_REQUESTED")
              /\ \A k \in 1..Len(last.effects) :
                    last.effects[k].kind \in PaymentEffects => k > 1
    /\ RefundDone
           => /\ Count(last.effects, "save_request") = 1
              /\ Count(last.effects, "event") = 1
              /\ last.effects[Len(last.effects)] = Effect("event", 0, "PATCH [request-refund]")
              /\ \A k, j \in 1..Len(last.effects) :
                    (last.effects[k].kind = "delete_solr_doc"
                        /\ last.effects[j].kind \in PaymentEffects) => j < k

C14_Witness ==
    /\ RefundDone
    /\ Has(last.effects, "refund_payment")
    /\ Has(last.effects, "delete_solr_doc")
    /\ last.effects[1].kind = "save_request"
    /\ last.effects[Len(last.effects)].kind = "event"
    /\ nrs[last.nr].stateCd = "REFUND_REQUESTED"

\* an external call of the last call failed after the state transition was
\* written: a refund call raised, or the search index failed its deletion
ExternalCallFailed ==
    /\ Has(last.effects, "save_request")
    /\ \/ \E j \in last.faults.refund : Positions("refund_payment", j) # {}
       \/ last.faults.solr /\ Has(last.effects, "delete_solr_doc")

\* C15: when an external call fails during CANCEL or REQUEST_REFUND after the
\* state transition was written, the transition stays: the request is
\* CANCELLED respectively REFUND_REQUESTED afterwards.
C15_TransitionNotUnwound ==
    /\ (Patched("CANCEL") /\ ExternalCallFailed)
           => nrs[last.nr].stateCd = "CANCELLED"
    /\ (Patched("REQUEST_REFUND") /\ ExternalCallFailed)
           => nrs[last.nr].stateCd = "REFUND_REQUESTED"

C15_Witness ==
    /\ Patched("REQUEST_REFUND")
    /\ \E j \in last.faults.refund : Positions("refund_payment", j) # {}
    /\ last.status = 500
    /\ last.pre.stateCd = "DRAFT"
    /\ nrs[last.nr].stateCd = "REFUND_REQUESTED"

\* C16: for every user, at most one request owned by that user is INPROGRESS.
C16_OneInProgressPerUser ==
    \A n1, n2 \in DOMAIN nrs :
        (nrs[n1].stateCd = "INPROGRESS" /\ nrs[n2].stateCd = "INPROGRESS"
            /\ nrs[n1].userId = nrs[n2].userId) => n1 = n2

\* C17: the state code of every request is a state of the enumeration.
C17_StateAlwaysValid ==
    \A n \in DOMAIN nrs : nrs[n].stateCd \in VALID_STATES

\* C18: consentFlag and the consent date are non-null only on a request
\* whose state is CONDITIONAL.
C18_ConsentOnlyWhenConditional ==
    \A n \in DOMAIN nrs :
        (nrs[n].consentFlag # NoFlag \/ nrs[n].consent_dt # Null)
            => nrs[n].stateCd = "CONDITIONAL"

\* the last call was a PATCH of an examiner that put the request into a
\* decision state
DecisionPatch(c) ==
    /\ c.op = "Request.patch" /\ c.status = 200
    /\ c.payload.state \in {"APPROVED", "REJECTED", "CONDITIONAL"}

\* C19: a PATCH that puts a request with furnished = 'N' and no
\* expirationDate into APPROVED, REJECTED or CONDITIONAL sets furnished = 'Y'
\* and an expirationDate; the same PATCH applied again right after it leaves
\* the expirationDate as it is.
C19_ExpirySetOnceByPatch ==
    /\ [](DecisionPatch(last) /\ last.pre.furnished = "N" /\ last.pre.expirationDate = Null
            => /\ nrs[last.nr].furnished = "Y"
               /\ nrs[last.nr].expirationDate # Null)
    /\ [][(DecisionPatch(last) /\ last.pre.furnished = "N"
             /\ last.pre.expirationDate = Null
             /\ last'.op = "Request.patch" /\ last'.nr = last.nr
             /\ last'.payload = last.payload)
            => nrs'[last.nr].expirationDate = nrs[last.nr].expirationDate]_vars

C19_Witness ==
    /\ DecisionPatch(last)
    /\ last.pre.stateCd = last.payload.state
    /\ last.pre.furnished = "Y" /\ last.pre.expirationDate # Null
    /\ expiries[last.nr] = 1
    /\ nrs[last.nr].expirationDate = last.pre.expirationDate

\* C20: the expiry computation of PATCH runs at most once for a request.
C20_ExpiryComputedAtMostOnce ==
    \A n \in DOMAIN nrs : expiries[n] <= 1

\* C21: a call that moves a request into INPROGRESS from another state
\* leaves its furnished flag at 'N'.
C21_FurnishedResetOnInProgress ==
    (/\ last.op = "Request.patch" /\ last.status = 200
     /\ last.payload.state = "INPROGRESS"
     /\ last.pre.stateCd # "INPROGRESS")
        => nrs[last.nr].furnished = "N"

\* the last PATCH got as far as the validation of its request data
Validated ==
    last.op = "PATCH" /\ last.status \notin {403, 423}

\* C28: the validation of a PATCH accepts the call only if the resulting
\* state, the stateCd of the request data or else the state of the request,
\* is request-editable or contact-editable; otherwise the call ends with the
\* invalid-input error and no handler has run.
C28_PatchStateValidated ==
    Validated
        => IF PatchStateValid
           THEN last.error # "InvalidInputError"
           ELSE /\ last.status # 200
                /\ last.error = "InvalidInputError"
                /\ Untouched

C28_Witness ==
    /\ Validated /\ last.nr_action = "EDIT"
    /\ last.pre.stateCd = "DRAFT" /\ last.payload.stateCd = "CANCELLED"
    /\ last.error = "InvalidInputError"
    /\ nrs[last.nr].stateCd = "DRAFT"

\* C29: a PATCH whose action token is none of CHECKOUT, CHECKIN, EDIT,
\* CANCEL, RESEND, REQUEST_REFUND fails validation and changes nothing; it is
\* not run as an EDIT.
C29_UnknownActionRejected ==
    (last.op = "PATCH" /\ last.status # 403
        /\ last.token \notin NameRequestPatchActions)
        => /\ last.status # 200
           /\ Untouched

\* C30: a rollback with a rollback action leaves the request CANCELLED
\* whatever its state was, deletes the document of the search index exactly
\* for the entity types CR, UL, BC, CP, PA, XCR, XUL, XCP, CC, FI, and then
\* records one rollback event; a rollback with another action is rejected
\* and changes nothing.
C30_RollbackForcesCancelled ==
    (last.op = "ROLLBACK" /\ last.status # 403)
        => IF last.token \in {"cancel"}
           THEN /\ last.status = 200
                /\ nrs[last.nr].stateCd = "CANCELLED"
                /\ Count(last.effects, "delete_solr_doc")
                     = IF last.pre.entity_type_cd
                            \in {"CR", "UL", "BC", "CP", "PA", "XCR", "XUL", "XCP", "CC", "FI"}
                       THEN 1 ELSE 0
                /\ Count(last.effects, "event") = 1
                /\ last.effects[Len(last.effects)] = Event("PATCH [rollback]")
           ELSE /\ last.status # 200
                /\ Untouched

C30_Witness ==
    /\ last.op = "ROLLBACK" /\ last.token = "cancel" /\ last.status = 200
    /\ last.pre.stateCd = "CONSUMED" /\ last.pre.entity_type_cd = "SO"
    /\ nrs[last.nr].stateCd = "CANCELLED"
    /\ ~Has(last.effects, "delete_solr_doc")

\* C24: a call that demotes the other INPROGRESS request of the acting user
\* moves it to its recorded previous state when it has one and to HOLD
\* otherwise, in Request.patch and in Request.put alike.
C24_DemotionRestoresPreviousState ==
    [][\A e \in DOMAIN nrs :
          (/\ last'.op \in {"Request.patch", "Request.put"}
           /\ last'.existing = e /\ e # last'.nr
           /\ \E k \in 1..Len(last'.effects) :
                  last'.effects[k].kind = "save_request" /\ last'.effects[k].idx = e)
            => nrs'[e].stateCd = IF nrs[e].previousStateCd \notin {NoState, ""}
                                 THEN nrs[e].previousStateCd
                                 ELSE "HOLD"]_vars

\* the last call was a PATCH of an examiner asking for CONSUMED that the
\* policy let through
ConsumeAsked ==
    /\ last.op = "Request.patch" /\ last.payload.state = "CONSUMED"
    /\ last.status # 401

\* the payload and the request meet what the consumption needs
Consumable ==
    /\ last.payload.corpNum \notin {"", Missing}
    /\ \E i \in 1..Len(last.pre.names) : last.pre.names[i].state \in {"APPROVED", "CONDITION"}

\* C22: a PATCH with state = CONSUMED fails unless the payload has a corpNum
\* and a name of the request is APPROVED or CONDITION; when it fails, no name
\* has a new consumption date or corp number and the stored state of the
\* request is the one it had.
C22_ConsumeNeedsCorpNumAndName ==
    (ConsumeAsked /\ ~Consumable)
        => /\ last.status # 200
           /\ nrs[last.nr].names = last.pre.names
           /\ nrs[last.nr].stateCd = last.pre.stateCd

\* C26: a PATCH or a PUT that moves a request into APPROVED, REJECTED,
\* CONDITIONAL, CONSUMED, EXPIRED or CANCELLED leaves its reset flag false,
\* a PUT that carries a reset included.
C26_ResetFlagClearedOnCompletion ==
    (/\ last.op \in {"Request.patch", "Request.put"} /\ last.status = 200
     /\ last.payload.state
            \in {"APPROVED", "REJECTED", "CONDITIONAL", "CONSUMED", "EXPIRED", "CANCELLED"})
        => /\ nrs[last.nr].stateCd = last.payload.state
           /\ nrs[last.nr].hasBeenReset = "false"

C26_Witness ==
    /\ last.op = "Request.put" /\ last.status = 200
    /\ last.payload.state = "REJECTED"
    /\ last.pre.furnished = "Y" /\ last.payload.furnished = "N"
    /\ last.pre.stateCd = "APPROVED"
    /\ Has(last.effects, "publish_email_notification")
    /\ nrs[last.nr].hasBeenReset = "false"

\* C23: a PATCH or a PUT that is rejected for a validation reason (the name
\* choices, errors in names or applicant, a consumption that cannot be made)
\* has stored nothing: every request, the other request of the user
\* included, and every applicant and name is as before the call.
C23_RejectionPersistsNothing ==
    [][(\/ last'.op = "Request.put" /\ last'.status = 400
        \/ last'.op = "Request.patch" /\ last'.status = 406
              /\ last'.payload.state = "CONSUMED")
          => nrs' = nrs]_vars

\* C25: a PUT in which no change flag is set and that carries no reset
\* stores nothing and has no effect.
C25_NoFlagNoPersistence ==
    (last.op = "Request.put" /\ last.status = 200 /\ ~last.changed)
        => /\ last.effects = << >>
           /\ nrs[last.nr] = last.pre

\* the payload of the last call has this name choice with a text
SendsName(choice) ==
    \E j \in 1..Len(last.payload.names) :
        /\ last.payload.names[j].choice = choice
        /\ last.payload.names[j].name # ""

\* the last call was a PUT that got as far as the name-choice check
NameChoicesChecked ==
    last.op = "Request.put" /\ last.status \notin {406, 401}

NameChoiceMessages ==
    {"Data does not include a name choice 1",
     "Data contains a name choice 3 without a name choice 2"}

\* C27: a PUT whose payload has no name choice 1 with a text, or has a name
\* choice 3 with a text and no name choice 2 with one, is rejected and
\* leaves the request as it was; any other PUT passes the name-choice check.
C27_NameChoicesRequired ==
    NameChoicesChecked
        => IF ~SendsName(1) \/ (SendsName(3) /\ ~SendsName(2))
           THEN /\ last.status = 400
                /\ last.error \in NameChoiceMessages
                /\ last.effects = << >>
                /\ nrs[last.nr] = last.pre
           ELSE last.error \notin NameChoiceMessages

C27_Witness ==
    /\ NameChoicesChecked
    /\ SendsName(1) /\ SendsName(3) /\ ~SendsName(2)
    /\ Len(last.payload.names) = 3
    /\ last.status = 400
    /\ last.error = "Data contains a name choice 3 without a name choice 2"
    /\ nrs[last.nr] = last.pre

\* the positions of the effects of this kind in the last call
Where(kind) == { i \in 1..Len(last.effects) : last.effects[i].kind = kind }

\* C38: a CANCEL and a RESEND record one event each, as their last step.
\* CANCEL leaves the request CANCELLED and has asked the search index to
\* drop the document (for the entity types the index holds) before the
\* event; RESEND leaves the state of the request as it was.
C38_CancelResendRecordLast ==
    (last.op = "PATCH" /\ last.nr_action \in {"CANCEL", "RESEND"} /\ last.status = 200)
        => /\ Cardinality(Where("event")) = 1
           /\ Where("event") = {Len(last.effects)}
           /\ last.nr_action = "CANCEL"
                => /\ nrs[last.nr].stateCd = "CANCELLED"
                   /\ last.pre.entity_type_cd \in solr_entity_types
                        => Where("delete_solr_doc") # {}
                   /\ \A i \in Where("delete_solr_doc"), j \in Where("event") : i < j
           /\ last.nr_action = "RESEND"
                => /\ nrs[last.nr].stateCd = last.pre.stateCd
                   /\ Where("delete_solr_doc") = {}

C38_Witness ==
    /\ last.op = "PATCH" /\ last.nr_action = "CANCEL" /\ last.status = 200
    /\ last.pre.stateCd = "DRAFT"
    /\ nrs[last.nr].stateCd = "CANCELLED"
    /\ Where("delete_solr_doc") = {2}
    /\ Where("event") = {Len(last.effects)}

\* C31: whenever the stored row of a request changes, the call that
\* changed it has recorded an event for that request.
C31_EveryChangeRecorded ==
    [][\A n \in DOMAIN nrs :
          nrs'[n] # nrs[n]
              => \E i \in 1..Len(last'.effects) :
                    last'.effects[i].kind = "event" /\ last'.effects[i].idx = n]_vars

\* the last call published a notification
Notified == Where("publish_email_notification") # {}

\* the last call saved its request and recorded the event after the save
SavedAndRecorded ==
    \E i \in Where("save_request"), j \in Where("event") :
        /\ i < j
        /\ last.effects[i].idx = last.nr
        /\ last.effects[j].idx = last.nr

\* C37: a PATCH of an examiner publishes a notification exactly when the
\* payload names APPROVED, CONDITIONAL or REJECTED and the request was saved
\* and the event recorded; the notification is the one of that state and
\* comes last.  A call that fails (no valid state, transition refused,
\* nothing to consume, the save raises) publishes nothing.
C37_DecisionNotified ==
    last.op = "Request.patch"
        => /\ Notified <=> (/\ last.payload.state \in {"APPROVED", "CONDITIONAL", "REJECTED"}
                            /\ SavedAndRecorded)
           /\ Notified => /\ Where("publish_email_notification") = {Len(last.effects)}
                          /\ last.effects[Len(last.effects)].txt = last.payload.state
                          /\ last.status = 200
           /\ last.status \in {406, 401, 500} => ~Notified /\ ~SavedAndRecorded

C37_Witness ==
    /\ last.op = "Request.patch" /\ last.status = 200
    /\ last.payload.state = "REJECTED"
    /\ last.pre.stateCd = "INPROGRESS"
    /\ nrs[last.nr].stateCd = "REJECTED"
    /\ Notified /\ SavedAndRecorded

\* the POST named a stored request and its lookup went through
Posted == ~last.payload.empty /\ last.payload.nrNum \in DOMAIN nrs /\ ~last.raises

\* C39: a POST for a stored request creates one payment-society record and
\* moves the request to DRAFT when it was in PENDING_PAYMENT, and leaves the
\* request as it was in any other state; no other request changes.  A POST
\* with an empty body, without nrNum or for an unknown request creates no
\* record and changes no request.
C39_PostDraftsPendingOnly ==
    [][last'.op = "PaymentSocieties.post"
         => IF Posted'
            THEN /\ last'.status = 200
                 /\ Len(societies') = Len(societies) + 1
                 /\ \A n \in DOMAIN nrs :
                       nrs'[n] = IF n = last'.nr /\ nrs[n].stateCd = "PENDING_PAYMENT"
                                 THEN [nrs[n] EXCEPT !.stateCd = "DRAFT"]
                                 ELSE nrs[n]
            ELSE /\ last'.status \in {400, 406, 404}
                 /\ societies' = societies
                 /\ nrs' = nrs]_vars

C39_Witness ==
    /\ last.op = "PaymentSocieties.post" /\ last.status = 200
    /\ last.pre.stateCd = "PENDING_PAYMENT"
    /\ nrs[last.nr].stateCd = "DRAFT"
    /\ Len(societies) = Len(last.preSocieties) + 1
    /\ societies[Len(societies)].nrNum = last.nr

\* the last call was a PUT or a PATCH of a name choice
NameCalled == last.op \in {"NRNames.put", "NRNames.patch"}

\* C32: a PUT or a PATCH of a name choice that has a valid body and finds
\* the name succeeds only for a request in INPROGRESS and the user who
\* examines it; for anybody else and in any other state the answer is 403,
\* and the names of the request and the event log are as before.
C32_NameChoiceNeedsOwner ==
    (NameCalled /\ last.status \notin {400, 404})
        => IF last.pre.stateCd = "INPROGRESS" /\ last.pre.userId = last.user
           THEN last.status \in {200, 500}
           ELSE /\ last.status = 403
                /\ nrs[last.nr] = last.pre
                /\ last.effects = << >>

C32_Witness ==
    /\ NameCalled /\ last.status = 403
    /\ last.pre.stateCd = "INPROGRESS" /\ last.pre.userId # last.user
    /\ last.payload.keys # {} /\ last.payload.valid
    /\ nrs[last.nr] = last.pre

\* C33: a PATCH of a name choice changes only the fields its body has:
\* every field of the name record that the body omits keeps its stored
\* value.
C33_PatchKeepsOmittedFields ==
    (last.op = "NRNames.patch" /\ last.status = 200)
        => \A f \in NameFields \ last.payload.keys :
              nrs[last.nr].names[last.idx][f] = last.pre.names[last.idx][f]

\* the payments the processor was given hold one with the token of the event
HasPaymentToken ==
    \E i \in 1..Len(last.env.nr_payments) :
        last.env.nr_payments[i].token = last.env.payment_token

\* C40: the processor returns an email only when the NR lookup answered OK,
\* there is a bearer token, an NR id and a payment token, a payment has that
\* token, the receipt came with OK and the applicant has an address; in
\* every other case the result is empty.  After a failed NR lookup nothing
\* else was requested.
C40_EmailOnlyWhenComplete ==
    last.op = "process"
        => /\ last.email # NoEmail
                => /\ last.env.nr_status = OK
                   /\ last.env.token # "" /\ last.env.nr_id # 0
                   /\ last.env.payment_token # ""
                   /\ HasPaymentToken
                   /\ last.env.receipt_status = OK
                   /\ last.env.emailAddress # ""
                   /\ last.email.recipients = last.env.emailAddress
                   /\ last.email.attachments # << >>
           /\ last.env.nr_status # OK
                => /\ last.email = NoEmail
                   /\ last.effects = << Effect("query_nr_number", 0, "") >>

C40_Witness ==
    /\ last.op = "process"
    /\ last.email # NoEmail
    /\ Len(last.env.nr_payments) = 2
    /\ Where("post_receipt") # {}

\* the tasks in flight for one NR number
TasksOf(queue, nrNum) == { t \in queue : t.nrNum = nrNum }

\* the worker's last call scheduled the email of a decision
Scheduled == last.op = "worker" /\ last.ce.option \in {"APPROVED", "CONDITIONAL", "REJECTED"}

\* C34: at most one email task is in flight per NR number.  A call of
\* schedule_email that finds a task of the NR pending deletes it before it
\* creates the new one; one that finds none creates one task and deletes
\* nothing.
C34_OneTaskPerRequest ==
    /\ \A nrNum \in {1, 2} : Cardinality(TasksOf(tasks, nrNum)) <= 1
    /\ Scheduled
         => /\ Cardinality(Where("create_task")) = 1
            /\ Task(last.ce) \in tasks
            /\ Cardinality(Where("delete_task"))
                  = Cardinality(TasksOf(last.preTasks, last.ce.nrNum))
            /\ \A i \in Where("delete_task"), j \in Where("create_task") : i < j
            /\ TasksOf(tasks, last.ce.nrNum) = {Task(last.ce)}

C34_Witness ==
    /\ Scheduled
    /\ TasksOf(last.preTasks, last.ce.nrNum) # {}
    /\ TasksOf(last.preTasks, last.ce.nrNum) # {Task(last.ce)}
    /\ Where("delete_task") = {1}
    /\ Where("create_task") = {2}

\* how often the email of this cloud event was delivered
Deliveries(id) == Cardinality({ i \in 1..Len(sent) : sent[i] = id })

Handled == last.op = "deliver_scheduled_email"

\* C35: the handler of the scheduled emails delivers the email of a cloud
\* event at most once.  A delivery that succeeds puts the id of the event
\* into the cache; an event whose id is in the cache is answered 200 and
\* send_email is not called.
C35_ScheduledEmailSentOnce ==
    /\ \A id \in 1..uuids : Deliveries(id) <= 1
    /\ \A i \in 1..Len(sent) : sent[i] \in ce_cache
    /\ (Handled /\ last.ce.id \in last.preCache)
         => /\ last.status = 200
            /\ Where("send_email") = {}
    /\ (Handled /\ last.ce.id \notin last.preCache /\ last.status = 200)
         => /\ last.ce.id \in ce_cache
            /\ Cardinality(Where("send_email")) = 1

C35_Witness ==
    /\ Handled
    /\ last.ce.id \in last.preCache
    /\ Deliveries(last.ce.id) = 1
    /\ last.status = 200
    /\ Where("send_email") = {}

\* C36: a PUT that takes furnished from 'Y' to 'N' publishes a RESET; the
\* worker answers a RESET event with 200, leaves no email task of that NR
\* in flight (the tasks of other requests stay), schedules and processes
\* nothing, and has the id of the event in its cache.
C36_ResetCancelsTasks ==
    /\ last.op = "Request.put"
         => /\ (\E i \in Where("publish_email_notification") : last.effects[i].txt = "RESET")
                  => last.pre.furnished = "Y" /\ last.payload.furnished = "N"
            /\ (last.status = 200 /\ last.pre.furnished = "Y"
                  /\ last.payload.furnished = "N")
                  => \E ce \in inbox : ce.option = "RESET" /\ ce.nrNum = last.nr
    /\ (last.op = "worker" /\ last.ce.option = "RESET")
         => /\ last.status = 200
            /\ TasksOf(tasks, last.ce.nrNum) = {}
            /\ tasks = last.preTasks \ TasksOf(last.preTasks, last.ce.nrNum)
            /\ Where("create_task") = {}
            /\ Where("process_email") = {} /\ Where("send_email") = {}
            /\ last.ce.id \in ce_cache

C36_Witness ==
    /\ last.op = "worker" /\ last.ce.option = "RESET"
    /\ last.ce.nrNum = 1
    /\ TasksOf(last.preTasks, 1) # {}
    /\ TasksOf(tasks, 1) = {}
    /\ Where("delete_task") # {}
    /\ nrs[1].hasBeenReset = "true"

====
